---- MODULE Spec2Model ----
(***************************************************************************)
(* Three HTTP mock services: a Jira-like issue tracker, a Slack-like       *)
(* messaging service and a TestRail-like test-case manager.  Each service   *)
(* is a set of route handlers over a relational store.  The model keeps    *)
(* the tables of each store, the last request the service received (req)   *)
(* and the response its handler produced (resp).  One action per handler.  *)
(* Requests are the ones the web framework hands to a handler: bodies that *)
(* fail the declared request schema never reach the handler and are not    *)
(* drawn.                                                                   *)
(***************************************************************************)
EXTENDS Integers, Sequences, FiniteSets, TLC

VARIABLES
    jIssues,      \* Jira: rows of table issues
    jSeq,         \* Jira: sqlite AUTOINCREMENT high-water mark of issues.id
    jNow,         \* Jira: the clock read by datetime('now')
    sChannels,    \* Slack: rows of table channels
    sMessages,    \* Slack: rows of table messages
    sFiles,       \* Slack: rows of table files
    sMsgSeq,      \* Slack: last messages.id assigned
    sNow,         \* Slack: the clock read by time.time(), in microseconds
    sAuthEnv,     \* Slack: value of the environment variable MOCK_AUTH_REQUIRED
    tProjects,    \* TestRail: rows of table projects
    tSections,    \* TestRail: rows of table sections
    tCases,       \* TestRail: rows of table cases
    tResults,     \* TestRail: rows of table results
    tRuns,        \* TestRail: rows of table runs
    tEntries,     \* TestRail: rows of table run_entries
    tNow,         \* TestRail: the clock read by datetime.utcnow
    req,          \* the last request received
    resp          \* the response to it

jiraVars == <<jIssues, jSeq, jNow>>
slackVars == <<sChannels, sMessages, sFiles, sMsgSeq, sNow, sAuthEnv>>
trVars == <<tProjects, tSections, tCases, tResults, tRuns, tEntries, tNow>>
vars == <<jIssues, jSeq, jNow, sChannels, sMessages, sFiles, sMsgSeq, sNow,
          sAuthEnv, tProjects, tSections, tCases, tResults, tRuns, tEntries,
          tNow, req, resp>>

----------------------------------------------------------------------------
(* Bounds *)

\* largest issues.id the Jira model assigns
MaxIssueId == 2

\* the Slack clock runs from 0 to MaxSlackClock microseconds after the service started
MaxSlackClock == 1

\* most rows of the Slack table files
MaxFiles == 1

\* largest cases.id the TestRail model assigns (the seed takes 1 to 7)
MaxCaseId == 8

\* largest sections.id, runs.id and results.id the TestRail model assigns (the seed takes
\* sections 1 to 5, run 1 and results 1 to 5)
MaxSectionId == 6
MaxRunId == 2
MaxResultId == 6

\* largest run_entries.id a form submission may start from (the seed takes entries 1 to 5)
MaxEntryId == 7

----------------------------------------------------------------------------
(* Common values *)

\* Python None / SQL NULL in a text column
NULL == "<null>"

\* text columns that hold a JSON document: NULL is the empty token list
NoText == <<>>

\* An Authorization header: absent, or a value given as a sequence of characters
NoHeader == [present |-> FALSE, value |-> <<>>]
Hdr(chars) == [present |-> TRUE, value |-> chars]

BearerPrefix == <<"B", "e", "a", "r", "e", "r", " ">>
LowerBearerPrefix == <<"b", "e", "a", "r", "e", "r", " ">>

AuthHeaders ==
    { NoHeader,
      Hdr(<<"B", "a", "s", "i", "c", " ", "x">>),
      Hdr(LowerBearerPrefix \o <<"t">>),
      Hdr(BearerPrefix),
      Hdr(BearerPrefix \o <<" ">>),
      Hdr(BearerPrefix \o <<"t">>) }

\* str.startswith
StartsWith(s, p) == Len(s) >= Len(p) /\ SubSeq(s, 1, Len(p)) = p

\* str.lower, on the characters the headers are made of
LowerChar(c) ==
    IF c = "B" THEN "b" ELSE c

Lower(s) == [i \in 1..Len(s) |-> LowerChar(s[i])]

\* str.strip: whitespace removed at both ends; only emptiness is used
StripIsEmpty(s) == \A i \in 1..Len(s) : s[i] = " "

\* What the interface documents: 'Bearer ' followed by a non-empty token
IsBearerWithToken(h) ==
    /\ h.present
    /\ StartsWith(h.value, BearerPrefix)
    /\ ~StripIsEmpty(SubSeq(h.value, Len(BearerPrefix) + 1, Len(h.value)))

\* The header begins with 'Bearer '
BeginsWithBearer(h) == h.present /\ StartsWith(h.value, BearerPrefix)

Response(status, body) == [status |-> status, body |-> body]
NoBody == [none |-> TRUE]

----------------------------------------------------------------------------
(* Jira mock: jira-mock/app.py *)

\* updated_on IS NULL
NoTime == 0 - 1

\* key = f"QA-{issue_id}"
KeyOf(id) == <<"QA-", id>>

\* json.dumps / json.loads of a list of strings, as a list of tokens
Dumps(l) == <<"[">> \o l \o <<"]">>
Loads(text) == SubSeq(text, 2, Len(text) - 1)

\* JSON values of a PATCH payload
JStr(s) == [t |-> "str", s |-> s, l |-> <<>>]
JObj(name) == [t |-> "obj", s |-> name, l |-> <<>>]
JList(l) == [t |-> "list", s |-> NULL, l |-> l]

\* what startup() finds at shared/seed/sample_issues.json: no file (or an empty list),
\* or a list of one issue
SeedFiles ==
    { <<>>,
      << [key |-> KeyOf(1), summary |-> "s1", description |-> "d1", issuetype |-> "Task"] >> }

\* INSERT INTO issues (key, summary, description, issue_type, created_on)
NewIssueRow(id, key, summary, description, issue_type, now) ==
    [id |-> id, key |-> key, summary |-> summary, description |-> description,
     issue_type |-> issue_type, created_on |-> now,
     priority |-> NULL, assignee |-> NULL, reporter |-> NULL,
     labels |-> NoText, components |-> NoText, updated_on |-> NoTime]

\* the rows startup() inserts into an empty table, ids continuing after seq
RECURSIVE SeedRows(_, _, _)
SeedRows(items, seq, now) ==
    IF items = <<>> THEN {}
    ELSE LET it == Head(items) IN
         { NewIssueRow(seq + 1, it.key, it.summary, it.description, it.issuetype, now) }
             \cup SeedRows(Tail(items), seq + 1, now)

\* a startup that inserts the seed rows whatever the table holds
startup_reseed(issues, seq, now, data) ==
    [issues |-> issues \cup SeedRows(data, seq, now), seq |-> seq + Len(data)]

\* startup(): create the table if missing, seed it from data when it holds no row
startup(issues, seq, now, data) ==
    IF Cardinality(issues) = 0
    THEN [issues |-> SeedRows(data, seq, now), seq |-> seq + Len(data)]
    ELSE [issues |-> issues, seq |-> seq]

\* The first definition of require_bearer, replaced at import time by the second
require_bearer_first(h) ==
    /\ h.present
    /\ h.value # <<>>
    /\ StartsWith(h.value, BearerPrefix)
    /\ ~StripIsEmpty(SubSeq(h.value, 8, Len(h.value)))

\* The definition of require_bearer in effect: TRUE when no HTTPException is raised
require_bearer(h) ==
    ~ (~h.present \/ ~StartsWith(Lower(h.value), LowerBearerPrefix))

\* SELECT ... FROM issues WHERE key=?
RowsByKey(issues, key) == { r \in issues : r.key = key }
RowByKey(issues, key) == CHOOSE r \in issues : r.key = key

\* the "fields" object get_issue builds from a row
IssueFieldsView(row) ==
    [summary |-> row.summary,
     description |-> row.description,
     issuetype |-> row.issue_type,
     priority |-> IF row.priority # NULL /\ row.priority # "" THEN row.priority ELSE "Medium",
     assignee |-> IF row.assignee # NULL /\ row.assignee # "" THEN row.assignee ELSE NULL,
     reporter |-> IF row.reporter # NULL /\ row.reporter # "" THEN row.reporter ELSE "Mock Reporter",
     created |-> row.created_on,
     updated |-> IF row.updated_on # NoTime THEN row.updated_on ELSE row.created_on,
     labels |-> IF row.labels # NoText THEN Loads(row.labels) ELSE <<>>,
     components |-> IF row.components # NoText THEN Loads(row.components) ELSE <<>>]

\* GET /rest/api/3/issue/{issue_key}
get_issue(issues, auth, key) ==
    IF ~require_bearer(auth) THEN Response(401, NoBody)
    ELSE IF RowsByKey(issues, key) = {} THEN Response(404, NoBody)
    ELSE LET row == RowByKey(issues, key) IN
         Response(200, [id |-> row.id, key |-> row.key, fields |-> IssueFieldsView(row)])

\* what a state-changing Jira handler returns: the response and the new store
JOut(r, issues, seq) == [resp |-> r, issues |-> issues, seq |-> seq]

\* a create on a table without AUTOINCREMENT: the new id follows the largest id stored
create_issue_after_largest(issues, seq, now, auth, p) ==
    IF ~require_bearer(auth) THEN JOut(Response(401, NoBody), issues, seq)
    ELSE LET summary == IF p.summary # "" THEN p.summary ELSE "No summary"
             description == IF p.description # NULL /\ p.description # "" THEN p.description ELSE ""
             issue_type == p.issuetype
             issue_id == Cardinality({ i \in 1..seq : \E r \in issues : r.id >= i }) + 1
             row == NewIssueRow(issue_id, KeyOf(issue_id), summary, description, issue_type, now)
         IN JOut(Response(201, [id |-> issue_id, key |-> row.key, fields |-> IssueFieldsView(row)]),
                 issues \cup {row}, seq + 1)

\* POST /rest/api/3/issue with a payload that satisfies IssueCreate
create_issue(issues, seq, now, auth, p) ==
    IF ~require_bearer(auth) THEN JOut(Response(401, NoBody), issues, seq)
    ELSE LET summary == IF p.summary # "" THEN p.summary ELSE "No summary"
             description == IF p.description # NULL /\ p.description # "" THEN p.description ELSE ""
             issue_type == p.issuetype
             issue_id == seq + 1
             row == NewIssueRow(issue_id, KeyOf(issue_id), summary, description, issue_type, now)
         IN JOut(Response(201, [id |-> issue_id, key |-> row.key, fields |-> IssueFieldsView(row)]),
                 issues \cup {row}, issue_id)

\* POST /ui/create (form fields summary, description; no Authorization needed)
ui_create(issues, seq, now, summary, description) ==
    LET issue_id == seq + 1
        row == NewIssueRow(issue_id, KeyOf(issue_id), summary, description, "Task", now)
    IN JOut(Response(303, [key |-> row.key]), issues \cup {row}, issue_id)

\* ORDER BY id DESC
RECURSIVE OrderByIdDesc(_)
OrderByIdDesc(rows) ==
    IF rows = {} THEN <<>>
    ELSE LET top == CHOOSE r \in rows : \A o \in rows : o.id <= r.id
         IN <<top>> \o OrderByIdDesc(rows \ {top})

\* LIMIT ? OFFSET ?
LimitOffset(q, limit, offset) ==
    SubSeq(q, offset + 1, IF offset + limit <= Len(q) THEN offset + limit ELSE Len(q))

\* a search that reads startAt as a page number
search_issues_by_page(issues, auth, startAt, maxResults) ==
    IF ~require_bearer(auth) THEN Response(401, NoBody)
    ELSE LET rows == LimitOffset(OrderByIdDesc(issues), maxResults, startAt * maxResults)
             page == [i \in 1..Len(rows) |->
                        [id |-> rows[i].id, key |-> rows[i].key, summary |-> rows[i].summary]]
         IN Response(200, [startAt |-> startAt, maxResults |-> maxResults,
                           total |-> Len(page), issues |-> page])

\* GET /rest/api/3/search
search_issues(issues, auth, startAt, maxResults) ==
    IF ~require_bearer(auth) THEN Response(401, NoBody)
    ELSE LET rows == LimitOffset(OrderByIdDesc(issues), maxResults, startAt)
             page == [i \in 1..Len(rows) |->
                        [id |-> rows[i].id, key |-> rows[i].key, summary |-> rows[i].summary]]
         IN Response(200, [startAt |-> startAt, maxResults |-> maxResults,
                           total |-> Len(page), issues |-> page])

\* a DELETE that answers 204 and removes nothing
delete_issue_keeps(issues, seq, auth, key) ==
    IF ~require_bearer(auth) THEN JOut(Response(401, NoBody), issues, seq)
    ELSE IF RowsByKey(issues, key) = {} THEN JOut(Response(404, NoBody), issues, seq)
    ELSE JOut(Response(204, NoBody), issues, seq)

\* DELETE /rest/api/3/issue/{issue_key}
delete_issue(issues, seq, auth, key) ==
    IF ~require_bearer(auth) THEN JOut(Response(401, NoBody), issues, seq)
    ELSE IF RowsByKey(issues, key) = {} THEN JOut(Response(404, NoBody), issues, seq)
    ELSE JOut(Response(204, NoBody), { r \in issues : r.key # key }, seq)

\* "k" in fields
Has(fields, k) == k \in DOMAIN fields

\* fields[k].get("name") if isinstance(fields[k], dict) else fields[k]
NameOrValue(v) == v.s

\* an UPDATE that takes the issue type from "issuetype" whatever its JSON type
ApplyUpdates_anyIssuetype(row, fields, now) ==
    [row EXCEPT
       !.summary = IF Has(fields, "summary") THEN fields["summary"].s ELSE @,
       !.description = IF Has(fields, "description") THEN fields["description"].s ELSE @,
       !.issue_type = IF Has(fields, "issuetype") THEN fields["issuetype"].s ELSE @,
       !.priority = IF Has(fields, "priority") THEN NameOrValue(fields["priority"]) ELSE @,
       !.assignee = IF Has(fields, "assignee") THEN NameOrValue(fields["assignee"]) ELSE @,
       !.reporter = IF Has(fields, "reporter") THEN NameOrValue(fields["reporter"]) ELSE @,
       !.labels = IF Has(fields, "labels") THEN Dumps(fields["labels"].l) ELSE @,
       !.components = IF Has(fields, "components") THEN Dumps(fields["components"].l) ELSE @,
       !.updated_on = now]

\* the row after UPDATE issues SET <updates>, updated_on=datetime('now')
ApplyUpdates(row, fields, now) ==
    [row EXCEPT
       !.summary = IF Has(fields, "summary") THEN fields["summary"].s ELSE @,
       !.description = IF Has(fields, "description") THEN fields["description"].s ELSE @,
       !.issue_type = IF Has(fields, "issuetype") /\ fields["issuetype"].t = "obj"
                      THEN fields["issuetype"].s ELSE @,
       !.priority = IF Has(fields, "priority") THEN NameOrValue(fields["priority"]) ELSE @,
       !.assignee = IF Has(fields, "assignee") THEN NameOrValue(fields["assignee"]) ELSE @,
       !.reporter = IF Has(fields, "reporter") THEN NameOrValue(fields["reporter"]) ELSE @,
       !.labels = IF Has(fields, "labels") THEN Dumps(fields["labels"].l) ELSE @,
       !.components = IF Has(fields, "components") THEN Dumps(fields["components"].l) ELSE @,
       !.updated_on = now]

\* the keys of the dict updates
UpdateKeys(fields) ==
    { k \in {"summary", "description", "priority", "assignee", "reporter", "labels", "components"} :
        Has(fields, k) }
    \cup (IF Has(fields, "issuetype") /\ fields["issuetype"].t = "obj" THEN {"issue_type"} ELSE {})

\* a PATCH that looks the issue up before it reads the payload
update_issue_lookup_first(issues, seq, now, auth, key, body) ==
    IF ~require_bearer(auth) THEN JOut(Response(401, NoBody), issues, seq)
    ELSE IF RowsByKey(issues, key) = {} THEN JOut(Response(404, NoBody), issues, seq)
    ELSE IF ~body.json THEN JOut(Response(400, NoBody), issues, seq)
    ELSE IF ~body.hasFields \/ DOMAIN body.fields = {} THEN JOut(Response(400, NoBody), issues, seq)
    ELSE IF UpdateKeys(body.fields) = {} THEN JOut(Response(400, NoBody), issues, seq)
    ELSE LET new == { IF r.key = key THEN ApplyUpdates(r, body.fields, now) ELSE r : r \in issues }
         IN JOut(get_issue(new, auth, key), new, seq)

\* PATCH /rest/api/3/issue/{issue_key}; body: [json, hasFields, fields]
update_issue(issues, seq, now, auth, key, body) ==
    IF ~require_bearer(auth) THEN JOut(Response(401, NoBody), issues, seq)
    ELSE IF ~body.json THEN JOut(Response(400, NoBody), issues, seq)
    ELSE IF ~body.hasFields \/ DOMAIN body.fields = {} THEN JOut(Response(400, NoBody), issues, seq)
    ELSE IF UpdateKeys(body.fields) = {} THEN JOut(Response(400, NoBody), issues, seq)
    ELSE IF RowsByKey(issues, key) = {} THEN JOut(Response(404, NoBody), issues, seq)
    ELSE LET new == { IF r.key = key THEN ApplyUpdates(r, body.fields, now) ELSE r : r \in issues }
         IN JOut(get_issue(new, auth, key), new, seq)

\* a reset that leaves the database file in place and only runs startup()
admin_reset_keeps_file(issues, seq, now, auth, data) ==
    IF ~require_bearer(auth) THEN JOut(Response(401, NoBody), issues, seq)
    ELSE LET s == startup(issues, seq, now, data)
         IN JOut(Response(200, [status |-> "reset"]), s.issues, s.seq)

\* POST /admin/reset: remove the database file, then startup()
admin_reset(issues, seq, now, auth, data) ==
    IF ~require_bearer(auth) THEN JOut(Response(401, NoBody), issues, seq)
    ELSE LET s == startup({}, 0, now, data)
         IN JOut(Response(200, [status |-> "reset"]), s.issues, s.seq)

(* Jira requests *)

IssueKeys == { KeyOf(i) : i \in 1..MaxIssueId }

\* IssueCreate payloads: required fields only (with an empty summary), and every field supplied
CreatePayloads ==
    { [summary |-> "", description |-> NULL, issuetype |-> "Bug", priority |-> NULL,
       assignee |-> NULL, reporter |-> NULL, labels |-> <<>>, components |-> <<>>],
      [summary |-> "s1", description |-> "d1", issuetype |-> "Task", priority |-> "High",
       assignee |-> "jane", reporter |-> "john", labels |-> <<"ui">>, components |-> <<"web">>] }

NoFields == [k \in {} |-> JStr("")]

PatchFields ==
    { [k \in {"issuetype"} |-> JStr("Epic")],
      [k \in {"summary", "issuetype"} |->
          IF k = "summary" THEN JStr("s2") ELSE JStr("Epic")],
      [k \in {"summary", "issuetype", "priority", "assignee", "labels"} |->
          CASE k = "summary" -> JStr("s2")
            [] k = "issuetype" -> JObj("Story")
            [] k = "priority" -> JObj("High")
            [] k = "assignee" -> JStr("bob")
            [] OTHER -> JList(<<"ui">>)] }

\* PATCH bodies: not JSON, no "fields", empty "fields", and "fields" objects
PatchBodies ==
    { [json |-> FALSE, hasFields |-> FALSE, fields |-> NoFields],
      [json |-> TRUE, hasFields |-> FALSE, fields |-> NoFields],
      [json |-> TRUE, hasFields |-> TRUE, fields |-> NoFields] }
    \cup { [json |-> TRUE, hasFields |-> TRUE, fields |-> f] : f \in PatchFields }

\* readings of datetime('now'): two instants tell a kept timestamp from a rewritten one
JiraTimes == {0, 1}

SearchStarts == {0, 1}
SearchSizes == {1, 2}

\* The requests of a run: every argument with a well-formed header, and one argument
\* with each header of hs.  GET is run with every header, the others without a header.
GoodHeader == Hdr(BearerPrefix \o <<"t">>)
Calls(args, any, hs) ==
    { <<GoodHeader, a>> : a \in args } \cup { <<h, any>> : h \in hs }

\* req keeps the last request (operation, header, and the body of a create or PATCH),
\* resp the status of the response to it
Request(svc, op, auth, arg) == [svc |-> svc, op |-> op, auth |-> auth, arg |-> arg]
NoArg == <<>>
NoKey == <<>>
JiraResp(r) == [status |-> r.status, key |-> IF r.status = 201 THEN r.body.key ELSE NoKey]

JiraStep(op, auth, arg, out) ==
    /\ req' = Request("jira", op, auth, arg)
    /\ resp' = JiraResp(out.resp)
    /\ jIssues' = out.issues
    /\ jSeq' = out.seq

JiraCreateIssue ==
    \E c \in Calls(CreatePayloads, CHOOSE p \in CreatePayloads : p.priority # NULL, {NoHeader}) :
        /\ jSeq < MaxIssueId
        /\ JiraStep("create", c[1], c[2], create_issue(jIssues, jSeq, jNow, c[1], c[2]))
        /\ UNCHANGED <<jNow, slackVars, trVars>>

JiraUiCreate ==
    /\ jSeq < MaxIssueId
    /\ JiraStep("ui_create", NoHeader, NoArg, ui_create(jIssues, jSeq, jNow, "s1", "d1"))
    /\ UNCHANGED <<jNow, slackVars, trVars>>

JiraGetIssue ==
    \E c \in Calls(IssueKeys, KeyOf(1), AuthHeaders) :
        /\ JiraStep("get", c[1], NoArg, JOut(get_issue(jIssues, c[1], c[2]), jIssues, jSeq))
        /\ UNCHANGED <<jNow, slackVars, trVars>>

JiraSearchIssues ==
    \E c \in Calls(SearchStarts \X SearchSizes, <<0, 1>>, {NoHeader}) :
        /\ JiraStep("search", c[1], NoArg,
                    JOut(search_issues(jIssues, c[1], c[2][1], c[2][2]), jIssues, jSeq))
        /\ UNCHANGED <<jNow, slackVars, trVars>>

JiraDeleteIssue ==
    \E c \in Calls(IssueKeys, KeyOf(1), {NoHeader}) :
        /\ JiraStep("delete", c[1], NoArg, delete_issue(jIssues, jSeq, c[1], c[2]))
        /\ UNCHANGED <<jNow, slackVars, trVars>>

JiraUpdateIssue ==
    \E c \in Calls(IssueKeys \X PatchBodies,
                   <<KeyOf(1), CHOOSE b \in PatchBodies : "priority" \in DOMAIN b.fields>>,
                   {NoHeader}) :
        /\ JiraStep("patch", c[1], c[2][2],
                    update_issue(jIssues, jSeq, jNow, c[1], c[2][1], c[2][2]))
        /\ UNCHANGED <<jNow, slackVars, trVars>>

JiraAdminReset ==
    \E auth \in {GoodHeader, NoHeader}, data \in SeedFiles :
        /\ JiraStep("reset", auth, NoArg, admin_reset(jIssues, jSeq, jNow, auth, data))
        /\ UNCHANGED <<jNow, slackVars, trVars>>

\* the service is restarted: startup() runs on the existing database file
JiraRestart ==
    \E data \in SeedFiles :
        /\ jIssues = {} => jSeq + Len(data) <= MaxIssueId
        /\ LET s == startup(jIssues, jSeq, jNow, data) IN
             JiraStep("startup", NoHeader, NoArg, JOut(Response(0, NoBody), s.issues, s.seq))
        /\ UNCHANGED <<jNow, slackVars, trVars>>

\* time passes
JiraTick ==
    /\ jNow' \in JiraTimes
    /\ jNow' > jNow
    /\ UNCHANGED <<jIssues, jSeq, slackVars, trVars, req, resp>>

JiraNext ==
    \/ JiraCreateIssue
    \/ JiraUiCreate
    \/ JiraGetIssue
    \/ JiraSearchIssues
    \/ JiraDeleteIssue
    \/ JiraUpdateIssue
    \/ JiraAdminReset
    \/ JiraRestart
    \/ JiraTick

\* The Jira service alone: its store after the first startup(), the other services unused
JiraInit ==
    /\ jNow = 0
    /\ \E data \in SeedFiles :
         /\ jIssues = startup({}, 0, 0, data).issues
         /\ jSeq = startup({}, 0, 0, data).seq
    /\ sChannels = {} /\ sMessages = {} /\ sFiles = {} /\ sMsgSeq = 0 /\ sNow = 0
    /\ sAuthEnv = "true"
    /\ tProjects = {} /\ tSections = {} /\ tCases = {} /\ tResults = {}
    /\ tRuns = {} /\ tEntries = {} /\ tNow = 0
    /\ req = Request("none", "none", NoHeader, NoArg)
    /\ resp = [status |-> 0, key |-> NoKey]

SpecJira == JiraInit /\ [][JiraNext]_vars

\* The requests of the API and the create form between two startups: no reset, no
\* restart, and the clock at one reading
JiraRequestsNext ==
    \/ JiraCreateIssue
    \/ JiraUiCreate
    \/ JiraGetIssue
    \/ JiraSearchIssues
    \/ JiraDeleteIssue
    \/ JiraUpdateIssue

SpecJiraRequests == JiraInit /\ [][JiraRequestsNext]_vars

----------------------------------------------------------------------------
(* Slack mock: slack-mock/routes.py, storage.py, models.py, app.py *)

\* a request field that the client left out
Omitted == "<omitted>"

\* timestamps are strings "<seconds>.<microseconds>"; a pair <<seconds, microseconds>>
\* stands for the string, and pairs are compared as the strings are (both parts have a
\* fixed number of digits)
TsLess(a, b) == a[1] < b[1] \/ (a[1] = b[1] /\ a[2] < b[2])
TsLeq(a, b) == a = b \/ TsLess(a, b)

\* oldest / latest not given (None), or given as the empty string
NoTs == <<>>

\* int(time.time()) when the service starts
StartSecond == 3600

\* generate_timestamp(): f"{time.time():.6f}", now microseconds after StartSecond
generate_timestamp(now) == <<StartSecond, now>>

Channel(id, name) == [id |-> id, name |-> name]
Message(id, ts, channel_id, user, text, thread_ts) ==
    [id |-> id, ts |-> ts, channel_id |-> channel_id, user |-> user, text |-> text,
     thread_ts |-> thread_ts]

\* seed_data(): two channels and five messages
SeedChannels == { Channel("C1234567890", "qa-reports"), Channel("C0987654321", "general") }
SeedMessages(base_ts) ==
    { Message(1, <<base_ts - 3600, 100>>, "C1234567890", "U1111111111", "run completed", NULL),
      Message(2, <<base_ts - 3000, 200>>, "C1234567890", "U2222222222", "critical bug", NULL),
      Message(3, <<base_ts - 1800, 300>>, "C1234567890", "U1111111111", "logged QA-123", NULL),
      Message(4, <<base_ts - 900, 400>>, "C0987654321", "U3333333333", "good morning", NULL),
      Message(5, <<base_ts - 300, 500>>, "C0987654321", "U2222222222", "thanks", NULL) }

\* init_db(): create the tables, seed them when there is no channel
init_db(channels, messages, seq) ==
    IF Cardinality(channels) = 0
    THEN [channels |-> SeedChannels, messages |-> SeedMessages(StartSecond),
          seq |-> Cardinality(SeedMessages(StartSecond))]
    ELSE [channels |-> channels, messages |-> messages, seq |-> seq]

\* os.getenv("MOCK_AUTH_REQUIRED", "true").lower()
LowerWord(v) == IF v = "TRUE" THEN "true" ELSE IF v = "FALSE" THEN "false" ELSE v

\* require_auth: TRUE when it returns, FALSE when it raises HTTPException(401)
require_auth(h, env) ==
    IF LowerWord(env) # "true" THEN TRUE
    ELSE ~ (~h.present \/ h.value = <<>> \/ ~StartsWith(h.value, BearerPrefix))

\* app.py: the handlers registered by @app.exception_handler for 404 and for 401 return
\* a dict, not a Response
DictHandlers == {404, 401}

\* The answer to a request whose route or dependency raises HTTPException(status).  The
\* value returned by the registered handler is sent as the response; a dict cannot be
\* sent (it is not an ASGI callable), the TypeError reaches the server error layer, whose
\* handler (registered for 500) returns a dict as well, and the server answers 500.
\* Without a registered handler the exception's own status is sent.
Raised(status) ==
    Response(IF status \in DictHandlers THEN 500 ELSE status, [raised |-> status])

\* an exception that is not an HTTPException escapes the route: the server answers 500
Crashed == Response(500, [raised |-> 0])

get_channel_by_name(channels, channel_name) == { c \in channels : c.name = channel_name }
get_channel_by_id(channels, channel_id) == { c \in channels : c.id = channel_id }

\* get_channel_by_name(db, x) or get_channel_by_id(db, x); the empty set is None
ChannelFor(channels, x) ==
    IF get_channel_by_name(channels, x) # {} THEN get_channel_by_name(channels, x)
    ELSE get_channel_by_id(channels, x)

\* PostMessageRequest: username defaults to "SlackBot", thread_ts to None
PostMessageRequest(p) ==
    [channel |-> p.channel, text |-> p.text,
     username |-> IF p.username = Omitted THEN "SlackBot" ELSE p.username,
     thread_ts |-> IF p.thread_ts = Omitted THEN NULL ELSE p.thread_ts]

\* a create_message that files every message under the first seeded channel
create_message_first(messages, seq, now, channel_id, user, text, thread_ts) ==
    LET row == Message(seq + 1, generate_timestamp(now), "C1234567890", user, text, thread_ts)
    IN IF user = NULL \/ text = NULL \/ \E m \in messages : m.ts = row.ts
       THEN [ok |-> FALSE, row |-> row, messages |-> messages, seq |-> seq]
       ELSE [ok |-> TRUE, row |-> row, messages |-> messages \cup {row}, seq |-> seq + 1]

\* a create_message whose table lets two rows carry one ts
create_message_any_ts(messages, seq, now, channel_id, user, text, thread_ts) ==
    LET row == Message(seq + 1, generate_timestamp(now), channel_id, user, text, thread_ts)
    IN IF user = NULL \/ text = NULL
       THEN [ok |-> FALSE, row |-> row, messages |-> messages, seq |-> seq]
       ELSE [ok |-> TRUE, row |-> row, messages |-> messages \cup {row}, seq |-> seq + 1]

\* create_message(): INSERT and commit; the commit fails (IntegrityError) when user or
\* text is NULL or when ts is already in the table (messages.ts is UNIQUE)
create_message(messages, seq, now, channel_id, user, text, thread_ts) ==
    LET row == Message(seq + 1, generate_timestamp(now), channel_id, user, text, thread_ts)
    IN IF user = NULL \/ text = NULL \/ \E m \in messages : m.ts = row.ts
       THEN [ok |-> FALSE, row |-> row, messages |-> messages, seq |-> seq]
       ELSE [ok |-> TRUE, row |-> row, messages |-> messages \cup {row}, seq |-> seq + 1]

\* ORDER BY ts DESC
RECURSIVE OrderByTsDesc(_)
OrderByTsDesc(rows) ==
    IF rows = {} THEN <<>>
    ELSE LET top == CHOOSE r \in rows : \A o \in rows : TsLeq(o.ts, r.ts)
         IN <<top>> \o OrderByTsDesc(rows \ {top})

\* LIMIT n (a negative n is no limit)
Limit(q, n) == IF n < 0 \/ n >= Len(q) THEN q ELSE SubSeq(q, 1, n)

\* get_messages(): the channel's messages within [oldest, latest], newest first
get_messages(messages, channel_id, limit, oldest, latest) ==
    Limit(OrderByTsDesc({ m \in messages :
                            /\ m.channel_id = channel_id
                            /\ oldest # NoTs => TsLeq(oldest, m.ts)
                            /\ latest # NoTs => TsLeq(m.ts, latest) }),
          limit)

\* reversed(messages)
Reversed(q) == [i \in 1..Len(q) |-> q[Len(q) + 1 - i]]

\* what a Slack handler returns: the response and the new tables
SOut(r, messages, seq, files) == [resp |-> r, messages |-> messages, seq |-> seq, files |-> files]

\* the "message" object of a response
MessageView(m) == [user |-> m.user, text |-> m.text, ts |-> m.ts, thread_ts |-> m.thread_ts]

\* POST /api/chat.postMessage with a body p that satisfies PostMessageRequest
post_message(channels, messages, seq, files, now, env, auth, p) ==
    LET request == PostMessageRequest(p)
        channel == ChannelFor(channels, request.channel)
    IN IF ~require_auth(auth, env) THEN SOut(Raised(401), messages, seq, files)
       ELSE IF channel = {} THEN SOut(Raised(404), messages, seq, files)
       ELSE LET ch == CHOOSE c \in channel : TRUE
                m == create_message(messages, seq, now, ch.id, request.username,
                                    request.text, request.thread_ts)
            IN IF ~m.ok THEN SOut(Raised(500), messages, seq, files)
               ELSE SOut(Response(200, [channel |-> ch.id, ts |-> m.row.ts,
                                        message |-> MessageView(m.row)]),
                         m.messages, m.seq, files)

\* GET /api/conversations.history
get_conversation_history(channels, messages, env, auth, channel, limit, oldest, latest) ==
    LET channel_obj == ChannelFor(channels, channel)
    IN IF ~require_auth(auth, env) THEN Raised(401)
       ELSE IF channel_obj = {} THEN Raised(404)
       ELSE LET ch == CHOOSE c \in channel_obj : TRUE
                found == get_messages(messages, ch.id, limit, oldest, latest)
                formatted == Reversed([i \in 1..Len(found) |-> MessageView(found[i])])
            IN Response(200, [messages |-> formatted, has_more |-> (Len(found) = limit),
                              next_cursor |-> IF Len(found) > 0 /\ Len(found) = limit
                                              THEN found[Len(found)].ts ELSE NoTs])

\* create_file(): a row with a new id; title falls back to the file name
create_file(files, name, title, size) ==
    [id |-> Cardinality(files) + 1, name |-> name,
     title |-> IF title # NULL /\ title # "" THEN title ELSE name,
     size |-> size]

\* the loop of upload_file over the channel names: one create_message per channel found
\* by name, the clock read anew for each, gap microseconds after the previous reading
RECURSIVE PostComments(_, _, _, _, _, _, _)
PostComments(names, channels, messages, seq, now, gap, text) ==
    IF names = <<>> THEN [ok |-> TRUE, messages |-> messages, seq |-> seq, now |-> now]
    ELSE LET channel == get_channel_by_name(channels, Head(names))
         IN IF channel = {}
            THEN PostComments(Tail(names), channels, messages, seq, now, gap, text)
            ELSE LET ch == CHOOSE c \in channel : TRUE
                     m == create_message(messages, seq, now, ch.id, "FileUploader", text, NULL)
                 IN IF ~m.ok
                    THEN [ok |-> FALSE, messages |-> messages, seq |-> seq, now |-> now]
                    ELSE PostComments(Tail(names), channels, m.messages, m.seq,
                                      now + gap, gap, text)

\* POST /api/files.upload; u: [channels, title, initial_comment, filename, content]
upload_file(channels, messages, seq, files, now, gap, env, auth, u) ==
    IF ~require_auth(auth, env) THEN SOut(Raised(401), messages, seq, files) @@ [now |-> now]
    ELSE LET file_obj == create_file(files, u.filename, u.title, Len(u.content))
             stored == files \cup {file_obj}
         IN IF u.initial_comment = NULL \/ u.initial_comment = ""
            THEN SOut(Response(200, [file |-> file_obj]), messages, seq, stored) @@ [now |-> now]
            ELSE LET c == PostComments(u.channels, channels, messages, seq, now, gap,
                                       <<u.initial_comment, u.filename>>)
                 IN IF c.ok
                    THEN SOut(Response(200, [file |-> file_obj]), c.messages, c.seq, stored)
                             @@ [now |-> c.now]
                    ELSE SOut(Crashed, c.messages, c.seq, stored) @@ [now |-> c.now]

(* Slack requests *)

\* a channel named by name, one named by ID, and a name no channel has
ChannelArgs == {"qa-reports", "C0987654321", "nope"}

\* chat.postMessage bodies: username left out or given, and one with username null
PostBodies ==
    { [channel |-> c, text |-> "hi", username |-> u, thread_ts |-> Omitted] :
        c \in ChannelArgs, u \in {Omitted, "u1"} }
    \cup { [channel |-> "general", text |-> "hi", username |-> NULL, thread_ts |-> Omitted] }

\* conversations.history arguments: channel, limit (default 50; any integer is accepted),
\* oldest, latest
HistoryLimits == {1, 50}
HistoryArgs ==
    { <<c, l, NoTs, NoTs>> : c \in ChannelArgs, l \in HistoryLimits }
    \cup { <<"general", 50, <<StartSecond, 0>>, NoTs>>, <<"general", 50, NoTs, <<StartSecond, 0>>>>,
           <<"general", -1, NoTs, NoTs>> }

\* files.upload forms; channels is the list split(',') and strip() make of the field
Uploads ==
    { [channels |-> <<"general">>, title |-> NULL, initial_comment |-> NULL, filename |-> "a.txt",
       content |-> <<>>],
      [channels |-> <<"qa-reports", "general">>, title |-> "T", initial_comment |-> "c",
       filename |-> "a.txt", content |-> <<"h", "i">>],
      [channels |-> <<"nope">>, title |-> NULL, initial_comment |-> "c", filename |-> "a.txt",
       content |-> <<>>] }

\* microseconds between two readings of the clock within one request
ClockGaps == {0, 1}

\* values of MOCK_AUTH_REQUIRED: unset (the default "true") and "false"
SlackEnvs == {"true", "false"}

SlackResp(r) ==
    [status |-> r.status, raised |-> IF "raised" \in DOMAIN r.body THEN r.body.raised ELSE 0]

SlackStep(op, auth, arg, out) ==
    /\ req' = Request("slack", op, auth, arg)
    /\ resp' = SlackResp(out.resp)
    /\ sMessages' = out.messages
    /\ sMsgSeq' = out.seq
    /\ sFiles' = out.files

SlackPostMessage ==
    \E c \in Calls(PostBodies, CHOOSE p \in PostBodies : p.channel = "qa-reports" /\ p.username = "u1",
                   {NoHeader}) :
        /\ SlackStep("post", c[1], c[2],
                     post_message(sChannels, sMessages, sMsgSeq, sFiles, sNow, sAuthEnv, c[1], c[2]))
        /\ UNCHANGED <<sChannels, sNow, sAuthEnv, jiraVars, trVars>>

SlackHistory ==
    \E c \in Calls(HistoryArgs, <<"general", 50, NoTs, NoTs>>, AuthHeaders) :
        /\ SlackStep("history", c[1], c[2],
                     SOut(get_conversation_history(sChannels, sMessages, sAuthEnv, c[1],
                                                   c[2][1], c[2][2], c[2][3], c[2][4]),
                          sMessages, sMsgSeq, sFiles))
        /\ UNCHANGED <<sChannels, sNow, sAuthEnv, jiraVars, trVars>>

SlackUploadFile ==
    \E c \in Calls(Uploads, CHOOSE u \in Uploads : u.title = "T", {NoHeader}), gap \in ClockGaps :
        LET out == upload_file(sChannels, sMessages, sMsgSeq, sFiles, sNow, gap, sAuthEnv,
                               c[1], c[2])
        IN /\ Cardinality(sFiles) < MaxFiles
           /\ out.now <= MaxSlackClock
           /\ SlackStep("upload", c[1], c[2], out)
           /\ sNow' = out.now
           /\ UNCHANGED <<sChannels, sAuthEnv, jiraVars, trVars>>

\* the service is restarted: init_db() runs on the existing database
SlackRestart ==
    LET s == init_db(sChannels, sMessages, sMsgSeq)
    IN /\ req' = Request("slack", "startup", NoHeader, NoArg)
       /\ resp' = [status |-> 0, raised |-> 0]
       /\ sChannels' = s.channels
       /\ sMessages' = s.messages
       /\ sMsgSeq' = s.seq
       /\ UNCHANGED <<sFiles, sNow, sAuthEnv, jiraVars, trVars>>

\* a microsecond passes
SlackTick ==
    /\ sNow < MaxSlackClock
    /\ sNow' = sNow + 1
    /\ UNCHANGED <<sChannels, sMessages, sFiles, sMsgSeq, sAuthEnv, jiraVars, trVars, req, resp>>

SlackNext ==
    \/ SlackPostMessage
    \/ SlackHistory
    \/ SlackUploadFile
    \/ SlackRestart
    \/ SlackTick

\* The Slack service alone: its store after the first init_db(), the other services unused
SlackInit ==
    /\ sAuthEnv \in SlackEnvs
    /\ sChannels = init_db({}, {}, 0).channels
    /\ sMessages = init_db({}, {}, 0).messages
    /\ sMsgSeq = init_db({}, {}, 0).seq
    /\ sFiles = {}
    /\ sNow = 0
    /\ jIssues = {} /\ jSeq = 0 /\ jNow = 0
    /\ tProjects = {} /\ tSections = {} /\ tCases = {} /\ tResults = {}
    /\ tRuns = {} /\ tEntries = {} /\ tNow = 0
    /\ req = Request("none", "none", NoHeader, NoArg)
    /\ resp = [status |-> 0, raised |-> 0]

SpecSlack == SlackInit /\ [][SlackNext]_vars

----------------------------------------------------------------------------
(* TestRail mock: testrail-mock/routes.py, app.py, storage.py, models.py *)

\* a JSON column: NULL, or a list
NoSteps == [null |-> TRUE, list |-> <<>>]
Steps(l) == [null |-> FALSE, list |-> l]

\* the store: one set of rows per table (the table templates is only read by the forms)
Db(projects, sections, cases, results, runs, entries) ==
    [projects |-> projects, sections |-> sections, cases |-> cases,
     results |-> results, runs |-> runs, entries |-> entries]

EmptyDb == Db({}, {}, {}, {}, {}, {})

\* an INTEGER PRIMARY KEY left out of an INSERT: one more than the largest id of the table
NextId(rows) ==
    IF rows = {} THEN 1
    ELSE (CHOOSE r \in rows : \A o \in rows : o.id <= r.id).id + 1

Project(id, name, description, now) ==
    [id |-> id, name |-> name, description |-> description, created_on |-> now]

Section(id, project_id, name, description, now) ==
    [id |-> id, project_id |-> project_id, name |-> name, description |-> description,
     parent_id |-> 0, created_on |-> now]

TestStep(step, expected) == [step |-> step, expected |-> expected]

\* TestCase(section_id=..., **fields): created_on and updated_on default to utcnow
TestCase(id, section_id, f, now) ==
    [id |-> id, section_id |-> section_id, title |-> f.title,
     template_id |-> f.template_id, type_id |-> f.type_id, priority_id |-> f.priority_id,
     steps |-> f.steps, expected_result |-> f.expected_result,
     preconditions |-> f.preconditions, created_on |-> now, updated_on |-> now]

TestResult(id, r, now) ==
    [id |-> id, case_id |-> r.case_id, status_id |-> r.status_id, comment |-> r.comment,
     elapsed |-> r.elapsed, created_on |-> now, created_by |-> "mock-user"]

TestRun(id, project_id, name, description, now) ==
    [id |-> id, project_id |-> project_id, name |-> name, description |-> description,
     created_on |-> now, is_completed |-> FALSE]

RunEntry(id, e) ==
    [id |-> id, run_id |-> e.run_id, case_id |-> e.case_id, status_id |-> e.status_id,
     comment |-> e.comment, elapsed |-> NULL]

\* the body fields of a test case
CaseFields ==
    {"title", "template_id", "type_id", "priority_id", "steps", "expected_result",
     "preconditions"}

\* TestCaseCreate: the fields a body leaves out take their defaults (title is required);
\* this is case.dict(), and the body itself is case.dict(exclude_unset=True)
CaseDefaults ==
    [template_id |-> 1, type_id |-> 1, priority_id |-> 2, steps |-> NoSteps,
     expected_result |-> NULL, preconditions |-> NULL]

TestCaseCreate(body) ==
    [f \in CaseFields |-> IF f \in DOMAIN body THEN body[f] ELSE CaseDefaults[f]]

\* check_auth: a path under /api/ or /index.php needs a header that starts with 'Bearer '.
\* No route, router or middleware refers to it, so no request is ever put to it.
check_auth(is_api_path, h) ==
    ~is_api_path \/ (h.present /\ StartsWith(h.value, BearerPrefix))

(* storage.py *)

SampleCases ==
    << [section_id |-> 1, title |-> "Login with valid credentials", template_id |-> 2,
        type_id |-> 1, priority_id |-> 1,
        steps |-> Steps(<< TestStep("Navigate to login page", "Login form is displayed"),
                           TestStep("Enter valid username and password",
                                    "Credentials are accepted"),
                           TestStep("Click login button",
                                    "User is redirected to dashboard") >>),
        expected_result |-> "User successfully logs in and sees dashboard",
        preconditions |-> "User account exists and is active"],
       [section_id |-> 1, title |-> "Login with invalid credentials", template_id |-> 2,
        type_id |-> 1, priority_id |-> 2,
        steps |-> Steps(<< TestStep("Navigate to login page", "Login form is displayed"),
                           TestStep("Enter invalid username or password",
                                    "Invalid credentials entered"),
                           TestStep("Click login button", "Error message is shown") >>),
        expected_result |-> "Login fails with appropriate error message",
        preconditions |-> "Login page is accessible"],
       [section_id |-> 2, title |-> "Create new user account", template_id |-> 2,
        type_id |-> 1, priority_id |-> 2,
        steps |-> Steps(<< TestStep("Navigate to user management page",
                                    "User list is displayed"),
                           TestStep("Click 'Add User' button", "User creation form opens"),
                           TestStep("Fill in required user details",
                                    "Form accepts valid data"),
                           TestStep("Submit the form", "User is created successfully") >>),
        expected_result |-> "New user account is created and appears in user list",
        preconditions |-> "Admin user is logged in"],
       [section_id |-> 3, title |-> "GET /api/users endpoint returns user list",
        template_id |-> 1, type_id |-> 1, priority_id |-> 2, steps |-> NoSteps,
        expected_result |-> "API returns 200 status with JSON array of users",
        preconditions |-> "API service is running and users exist in database"],
       [section_id |-> 3, title |-> "POST /api/users creates new user", template_id |-> 2,
        type_id |-> 1, priority_id |-> 2,
        steps |-> Steps(<< TestStep("Send POST request to /api/users with valid user data",
                                    "Request is processed"),
                           TestStep("Check response status code", "Returns 201 Created"),
                           TestStep("Verify response body contains user data",
                                    "User object returned with ID") >>),
        expected_result |-> "New user is created via API and returns user object",
        preconditions |-> "API authentication token is valid"],
       [section_id |-> 4, title |-> "Navigation menu displays all sections",
        template_id |-> 1, type_id |-> 1, priority_id |-> 3, steps |-> NoSteps,
        expected_result |-> "All navigation menu items are visible and clickable",
        preconditions |-> "User is logged in to the application"],
       [section_id |-> 5, title |-> "End-to-end user registration and login flow",
        template_id |-> 2, type_id |-> 2, priority_id |-> 2,
        steps |-> Steps(<< TestStep("Register new user account", "Registration successful"),
                           TestStep("Verify email confirmation",
                                    "Email received and confirmed"),
                           TestStep("Login with new credentials", "Login successful"),
                           TestStep("Access protected resources",
                                    "User can access all features") >>),
        expected_result |-> "Complete user onboarding flow works end-to-end",
        preconditions |-> "Email service is configured and working"] >>

SampleResults ==
    << [case_id |-> 1, status_id |-> 1, comment |-> "Test passed successfully",
        elapsed |-> "2m 15s"],
       [case_id |-> 2, status_id |-> 1, comment |-> "Error message displayed correctly",
        elapsed |-> "1m 30s"],
       [case_id |-> 3, status_id |-> 5, comment |-> "Form validation failed",
        elapsed |-> "3m 45s"],
       [case_id |-> 4, status_id |-> 1, comment |-> "API response correct", elapsed |-> "45s"],
       [case_id |-> 5, status_id |-> 4, comment |-> "Need to retest with updated data",
        elapsed |-> "2m 00s"] >>

SampleEntries ==
    << [run_id |-> 1, case_id |-> 1, status_id |-> 1, comment |-> "Passed"],
       [run_id |-> 1, case_id |-> 2, status_id |-> 1, comment |-> "Passed"],
       [run_id |-> 1, case_id |-> 3, status_id |-> 5,
        comment |-> "Failed - needs investigation"],
       [run_id |-> 1, case_id |-> 4, status_id |-> 3, comment |-> "Not yet tested"],
       [run_id |-> 1, case_id |-> 5, status_id |-> 3, comment |-> "Not yet tested"] >>

\* create_sample_test_cases: the rows are added in order, each taking the next id
create_sample_test_cases(db, now) ==
    LET c0 == NextId(db.cases) - 1
        r0 == NextId(db.results) - 1
        e0 == NextId(db.entries) - 1
    IN [db EXCEPT
          !.cases = @ \cup { TestCase(c0 + i, SampleCases[i].section_id, SampleCases[i], now) :
                             i \in 1..Len(SampleCases) },
          !.results = @ \cup { TestResult(r0 + i, SampleResults[i], now) :
                               i \in 1..Len(SampleResults) },
          !.runs = @ \cup { TestRun(NextId(db.runs), 1, "Sprint 1 Regression Tests",
                                    "Regression testing for Sprint 1 features", now) },
          !.entries = @ \cup { RunEntry(e0 + i, SampleEntries[i]) :
                               i \in 1..Len(SampleEntries) }]

\* load_seed_data_from_json: the service's directory holds no
\* ./shared/seed/sample_testcases.json, so the sample data is created directly
load_seed_data_from_json(db, now) == create_sample_test_cases(db, now)

\* seed_initial_data: nothing when a project exists; else the default project, its five
\* sections and the seed data
seed_initial_data(db, now) ==
    IF db.projects # {} THEN db
    ELSE load_seed_data_from_json(
           [db EXCEPT
              !.projects = @ \cup { Project(1, "Demo Project",
                                            "Sample project for TestRail mock service", now) },
              !.sections = @ \cup
                  { Section(1, 1, "Authentication", "Login and authentication tests", now),
                    Section(2, 1, "User Management", "User creation, editing, and deletion",
                            now),
                    Section(3, 1, "API Tests", "REST API endpoint testing", now),
                    Section(4, 1, "UI Tests", "User interface testing", now),
                    Section(5, 1, "Integration", "Integration and end-to-end tests", now) }],
           now)

(* routes.py *)

\* a handler's response and the store it leaves
TOut(r, db) == [resp |-> r, db |-> db]

\* query.all(): the rows in rowid order
AllRows(rows) == Reversed(OrderByIdDesc(rows))

\* session.commit() of a loaded row: an UPDATE is issued when a column value changed, and
\* it sets updated_on (onupdate=datetime.utcnow)
Flush(old, new, now) ==
    IF new = old THEN old ELSE [new EXCEPT !.updated_on = now]

\* setattr(row, field, value) for each item of values
SetAttrs(row, values) ==
    [f \in DOMAIN row |-> IF f \in DOMAIN values THEN values[f] ELSE row[f]]

\* GET /api/v2/projects
get_projects(db) == Response(200, [list |-> AllRows(db.projects)])

\* GET /api/v2/case/{case_id}
get_case(db, case_id) ==
    LET found == { c \in db.cases : c.id = case_id }
    IN IF found = {} THEN Response(404, NoBody)
       ELSE Response(200, CHOOSE c \in found : TRUE)

\* OFFSET n
Offset(q, n) == SubSeq(q, n + 1, Len(q))

\* GET /api/v2/cases/{project_id}: query holds limit and offset, and section_id when the
\* request gives it.  The cases are joined with their sections and come in id order; a
\* section_id of 0 is not applied ("if section_id:").
get_cases(db, project_id, query) ==
    LET joined == { c \in db.cases :
                      \E s \in db.sections : s.id = c.section_id /\ s.project_id = project_id }
        filtered == IF "section_id" \in DOMAIN query /\ query.section_id # 0
                    THEN { c \in joined : c.section_id = query.section_id }
                    ELSE joined
    IN Response(200, [list |-> Limit(Offset(AllRows(filtered), query.offset), query.limit)])

\* a create that stores the title and takes every other field from the defaults
create_case_defaults(db, now, section_id, body) ==
    IF { s \in db.sections : s.id = section_id } = {} THEN TOut(Response(404, NoBody), db)
    ELSE LET db_case == TestCase(NextId(db.cases), section_id,
                                 TestCaseCreate([title |-> body.title]), now)
         IN TOut(Response(200, db_case), [db EXCEPT !.cases = @ \cup {db_case}])

\* POST /api/v2/cases/{section_id}
create_case(db, now, section_id, body) ==
    IF { s \in db.sections : s.id = section_id } = {} THEN TOut(Response(404, NoBody), db)
    ELSE LET db_case == TestCase(NextId(db.cases), section_id, TestCaseCreate(body), now)
         IN TOut(Response(200, db_case), [db EXCEPT !.cases = @ \cup {db_case}])

\* an update that writes case.dict(), the unset fields with their defaults included
update_case_all(db, now, case_id, body) ==
    LET found == { c \in db.cases : c.id = case_id }
    IN IF found = {} THEN TOut(Response(404, NoBody), db)
       ELSE LET old == CHOOSE c \in found : TRUE
                db_case == Flush(old, SetAttrs(old, TestCaseCreate(body)), now)
            IN TOut(Response(200, db_case),
                    [db EXCEPT !.cases = (@ \ {old}) \cup {db_case}])

\* PUT /api/v2/case/{case_id}
update_case(db, now, case_id, body) ==
    LET found == { c \in db.cases : c.id = case_id }
    IN IF found = {} THEN TOut(Response(404, NoBody), db)
       ELSE LET old == CHOOSE c \in found : TRUE
                db_case == Flush(old, SetAttrs(old, body), now)
            IN TOut(Response(200, db_case),
                    [db EXCEPT !.cases = (@ \ {old}) \cup {db_case}])

STATUS_NAMES == {1, 2, 3, 4, 5}

\* POST /api/v2/sections/{project_id}
create_section(db, now, project_id, body) ==
    IF { p \in db.projects : p.id = project_id } = {} THEN TOut(Response(404, NoBody), db)
    ELSE LET db_section == [Section(NextId(db.sections), project_id, body.name,
                                    body.description, now)
                            EXCEPT !.parent_id = body.parent_id]
         IN TOut(Response(200, db_section), [db EXCEPT !.sections = @ \cup {db_section}])

\* a create that does not look the project up
create_run_unchecked(db, now, project_id, body) ==
    LET db_run == TestRun(NextId(db.runs), project_id, body.name, body.description, now)
    IN TOut(Response(200, db_run), [db EXCEPT !.runs = @ \cup {db_run}])

\* POST /api/v2/runs/{project_id}
create_run(db, now, project_id, body) ==
    IF { p \in db.projects : p.id = project_id } = {} THEN TOut(Response(404, NoBody), db)
    ELSE LET db_run == TestRun(NextId(db.runs), project_id, body.name, body.description, now)
         IN TOut(Response(200, db_run), [db EXCEPT !.runs = @ \cup {db_run}])

\* a create that stores the result whatever its status_id
create_result_any_status(db, now, case_id, body) ==
    IF { c \in db.cases : c.id = case_id } = {} THEN TOut(Response(404, NoBody), db)
    ELSE LET db_result == TestResult(NextId(db.results),
                                     [case_id |-> case_id, status_id |-> body.status_id,
                                      comment |-> body.comment, elapsed |-> body.elapsed],
                                     now)
         IN TOut(Response(200, db_result), [db EXCEPT !.results = @ \cup {db_result}])

\* POST /api/v2/results/{case_id}
create_result(db, now, case_id, body) ==
    IF { c \in db.cases : c.id = case_id } = {} THEN TOut(Response(404, NoBody), db)
    ELSE IF body.status_id \notin STATUS_NAMES THEN TOut(Response(400, NoBody), db)
    ELSE LET db_result == TestResult(NextId(db.results),
                                     [case_id |-> case_id, status_id |-> body.status_id,
                                      comment |-> body.comment, elapsed |-> body.elapsed],
                                     now)
         IN TOut(Response(200, db_result), [db EXCEPT !.results = @ \cup {db_result}])

\* a request whose path matches a route but whose method no route of that path accepts:
\* the router answers 405 and no handler runs.  /api/v2/case/{case_id} is routed for GET
\* and PUT only, so this is the answer to DELETE /api/v2/case/{case_id}
MethodNotAllowed(db) == TOut(Response(405, NoBody), db)

(* app.py: the forms of the UI *)

\* str.strip of a form value; the values used carry no other whitespace
Strip(s) == IF s = " " THEN "" ELSE s

\* the steps[i][step] / steps[i][expected] pairs of a form, in order; a pair is kept when
\* both parts are non-empty after strip()
ExtractSteps(pairs) ==
    SelectSeq([i \in 1..Len(pairs) |-> TestStep(Strip(pairs[i].step), Strip(pairs[i].expected))],
              LAMBDA p : p.step # "" /\ p.expected # "")

\* the column values a case form yields
FormValues(form) ==
    [title |-> form.title, template_id |-> form.template_id, type_id |-> form.type_id,
     priority_id |-> form.priority_id,
     expected_result |-> IF form.expected_result # "" THEN form.expected_result ELSE NULL,
     preconditions |-> IF form.preconditions # "" THEN form.preconditions ELSE NULL,
     steps |-> IF ExtractSteps(form.steps) # <<>> THEN Steps(ExtractSteps(form.steps))
               ELSE NoSteps]

\* POST /ui/cases/create
create_case_submit(db, now, form) ==
    LET case == TestCase(NextId(db.cases), form.section_id, FormValues(form), now)
    IN TOut(Response(303, [id |-> case.id]), [db EXCEPT !.cases = @ \cup {case}])

\* POST /ui/case/{case_id}/edit
edit_case_submit(db, now, case_id, form) ==
    LET found == { c \in db.cases : c.id = case_id }
    IN IF found = {} THEN TOut(Response(404, NoBody), db)
       ELSE LET old == CHOOSE c \in found : TRUE
                case == Flush(old,
                              SetAttrs(old, FormValues(form) @@ [section_id |-> form.section_id]),
                              now)
            IN TOut(Response(303, [id |-> case_id]),
                    [db EXCEPT !.cases = (@ \ {old}) \cup {case}])

\* total_cases += case_count, over the sections in turn
RECURSIVE SumOf(_)
SumOf(q) == IF q = <<>> THEN 0 ELSE Head(q) + SumOf(Tail(q))

\* GET /api/v2/stats/{project_id}: for each section of the project the number of its
\* cases and, per status, the number of results stored for its cases; the same tallies
\* over all sections.  A stored status_id that is no key of STATUS_NAMES raises KeyError
\* while tallying, and the server answers 500.
get_project_stats(db, project_id) ==
    LET sections == AllRows({ s \in db.sections : s.project_id = project_id })
        CasesOf(s) == { c \in db.cases : c.section_id = s.id }
        ResultsOf(s) == { r \in db.results : \E c \in CasesOf(s) : c.id = r.case_id }
        tallied == UNION { ResultsOf(sections[i]) : i \in 1..Len(sections) }
        Tally(results) ==
            [status_id \in STATUS_NAMES |->
                Cardinality({ r \in results : r.status_id = status_id })]
        section_stats ==
            [i \in 1..Len(sections) |->
                [section_id |-> sections[i].id,
                 section_name |-> sections[i].name,
                 case_count |-> Cardinality(CasesOf(sections[i])),
                 status_counts |-> Tally(ResultsOf(sections[i]))]]
    IN IF \E r \in tallied : r.status_id \notin STATUS_NAMES THEN Response(500, NoBody)
       ELSE Response(200,
                [project_id |-> project_id,
                 total_cases |-> SumOf([i \in 1..Len(sections) |-> section_stats[i].case_count]),
                 sections |-> section_stats,
                 overall_status_counts |-> Tally(tallied)])

\* an execute form that stores the result without looking the case up
execute_case_any_case(db, now, case_id, form) ==
    LET result == TestResult(NextId(db.results),
                             [case_id |-> case_id, status_id |-> form.status_id,
                              comment |-> form.comment, elapsed |-> form.elapsed],
                             now)
    IN TOut(Response(303, [id |-> case_id]), [db EXCEPT !.results = @ \cup {result}])

\* POST /ui/case/{case_id}/execute
execute_case(db, now, case_id, form) ==
    IF { c \in db.cases : c.id = case_id } = {} THEN TOut(Response(404, NoBody), db)
    ELSE LET result == TestResult(NextId(db.results),
                                  [case_id |-> case_id, status_id |-> form.status_id,
                                   comment |-> form.comment, elapsed |-> form.elapsed],
                                  now)
         IN TOut(Response(303, [id |-> case_id]), [db EXCEPT !.results = @ \cup {result}])

\* the loop of add_cases_to_run_submit: an entry is added to the session for each listed
\* case that has no entry of the run in the table.  The session is made with
\* autoflush=False, so the query does not see the entries added earlier in the loop; the
\* commit after the loop inserts them in order.
RECURSIVE AddEntries(_, _, _, _)
AddEntries(case_ids, run_id, table, pending) ==
    IF case_ids = <<>> THEN pending
    ELSE LET existing == { e \in table : e.run_id = run_id /\ e.case_id = Head(case_ids) }
             entry == [run_id |-> run_id, case_id |-> Head(case_ids), status_id |-> 3,
                       comment |-> NULL]
         IN AddEntries(Tail(case_ids), run_id, table,
                       IF existing = {} THEN Append(pending, entry) ELSE pending)

\* INSERT of the pending rows, each taking the next id
RECURSIVE InsertEntries(_, _)
InsertEntries(table, pending) ==
    IF pending = <<>> THEN table
    ELSE InsertEntries(table \cup { RunEntry(NextId(table), Head(pending)) }, Tail(pending))

\* POST /ui/run/{run_id}/add-cases
add_cases_to_run_submit(db, run_id, case_ids) ==
    IF { r \in db.runs : r.id = run_id } = {} THEN TOut(Response(404, NoBody), db)
    ELSE TOut(Response(303, [id |-> run_id]),
              [db EXCEPT !.entries =
                   InsertEntries(@, AddEntries(case_ids, run_id, db.entries, <<>>))])

\* GET /ui/run/{run_id}/complete
complete_run(db, run_id) ==
    IF { r \in db.runs : r.id = run_id } = {} THEN TOut(Response(404, NoBody), db)
    ELSE TOut(Response(303, [id |-> run_id]),
              [db EXCEPT !.runs = { IF r.id = run_id THEN [r EXCEPT !.is_completed = TRUE]
                                    ELSE r : r \in @ }])

(* TestRail requests *)

\* an existing section and an id no section has
SectionIds == {1, 6}

\* POST bodies: the title alone, and every field given
CaseBodies ==
    { [title |-> "t1"],
      [title |-> "t1", template_id |-> 2, type_id |-> 3, priority_id |-> 4,
       steps |-> Steps(<< TestStep("a", "b") >>), expected_result |-> "e",
       preconditions |-> "p"] }

\* PUT bodies: a new title, the title seeded case 1 already has, a title with further
\* fields, one of them null
PutBodies ==
    { [title |-> "t2"],
      [title |-> "Login with valid credentials"],
      [title |-> "t2", type_id |-> 2, priority_id |-> 4, steps |-> NoSteps] }

\* a seeded case, the last case the model creates, and an id no case has
CaseIds == {1, MaxCaseId, MaxCaseId + 1}

\* the cases PUT is sent to, and the cases the edit form is submitted for
PutIds == {1, MaxCaseId + 1}
EditIds == {MaxCaseId, MaxCaseId + 1}

\* readings of the clock
TestRailTimes == {0, 1}

\* case forms: no expected result, and a second step whose action is blank; and one that
\* names a section id no section has
CaseForms ==
    { [section_id |-> 2, title |-> "t3", template_id |-> 1, type_id |-> 1,
       priority_id |-> 2, expected_result |-> "", preconditions |-> "p",
       steps |-> << TestStep("a", "b"), TestStep(" ", "b") >>],
      [section_id |-> MaxSectionId + 1, title |-> "t4", template_id |-> 1, type_id |-> 1,
       priority_id |-> 2, expected_result |-> "e", preconditions |-> "",
       steps |-> <<>>] }

\* the seeded project and an id no project has
ProjectIds == {1, 2}

\* POST bodies of a section and of a run
SectionBodies == { [name |-> "s1", description |-> NULL, parent_id |-> 0] }
RunBodies == { [name |-> "r1", description |-> "d1"] }

\* results: a seeded case and an id no case has; a status with comment and elapsed, one
\* without, and the integers next to the known statuses
ResultCaseIds == {1, MaxCaseId + 1}
ResultBodies ==
    { [status_id |-> 1, comment |-> "c1", elapsed |-> "1m"],
      [status_id |-> 5, comment |-> NULL, elapsed |-> NULL],
      [status_id |-> 0, comment |-> NULL, elapsed |-> NULL],
      [status_id |-> 6, comment |-> "c1", elapsed |-> NULL] }

\* the execute form of the UI: status_id as typed into the form
ExecuteForms ==
    { [status_id |-> 2, comment |-> NULL, elapsed |-> NULL],
      [status_id |-> 6, comment |-> "c1", elapsed |-> NULL] }

\* GET /api/v2/cases/{project_id} arguments: the project, and the query parameters
\* (limit <= 250, default 50; offset >= 0, default 0; section_id optional)
GetCasesArgs ==
    { <<1, [limit |-> 50, offset |-> 0]>>,
      <<1, [section_id |-> 1, limit |-> 1, offset |-> 1]>>,
      <<1, [section_id |-> 0, limit |-> 50, offset |-> 0]>>,
      <<1, [limit |-> -1, offset |-> 0]>>,
      <<2, [limit |-> 250, offset |-> 0]>> }

TrDb == Db(tProjects, tSections, tCases, tResults, tRuns, tEntries)

TrResp(r) ==
    [status |-> r.status, id |-> IF "id" \in DOMAIN r.body THEN r.body.id ELSE 0]

TrStep(op, auth, arg, out) ==
    /\ req' = Request("testrail", op, auth, arg)
    /\ resp' = TrResp(out.resp)
    /\ tProjects' = out.db.projects
    /\ tSections' = out.db.sections
    /\ tCases' = out.db.cases
    /\ tResults' = out.db.results
    /\ tRuns' = out.db.runs
    /\ tEntries' = out.db.entries

TrGetProjects ==
    \E h \in AuthHeaders :
        /\ TrStep("get_projects", h, NoArg, TOut(get_projects(TrDb), TrDb))
        /\ UNCHANGED <<tNow, jiraVars, slackVars>>

TrGetCase ==
    \E c \in Calls(CaseIds, 1, {NoHeader}) :
        /\ TrStep("get_case", c[1], [case_id |-> c[2]], TOut(get_case(TrDb, c[2]), TrDb))
        /\ UNCHANGED <<tNow, jiraVars, slackVars>>

TrCreateCase ==
    \E c \in Calls(SectionIds \X CaseBodies, <<1, [title |-> "t1"]>>, {NoHeader}) :
        /\ NextId(tCases) <= MaxCaseId
        /\ TrStep("create_case", c[1], [section_id |-> c[2][1], body |-> c[2][2]],
                  create_case(TrDb, tNow, c[2][1], c[2][2]))
        /\ UNCHANGED <<tNow, jiraVars, slackVars>>

TrGetCases ==
    \E c \in Calls(GetCasesArgs, <<1, [limit |-> 50, offset |-> 0]>>, {NoHeader}) :
        /\ TrStep("get_cases", c[1], [project_id |-> c[2][1], query |-> c[2][2]],
                  TOut(get_cases(TrDb, c[2][1], c[2][2]), TrDb))
        /\ UNCHANGED <<tNow, jiraVars, slackVars>>

TrDeleteCase ==
    \E c \in Calls(CaseIds, 1, {NoHeader}) :
        /\ TrStep("delete_case", c[1], [case_id |-> c[2]], MethodNotAllowed(TrDb))
        /\ UNCHANGED <<tNow, jiraVars, slackVars>>

TrUpdateCase ==
    \E c \in Calls(PutIds \X PutBodies, <<1, [title |-> "t2"]>>, {NoHeader}) :
        /\ TrStep("update_case", c[1], [case_id |-> c[2][1], body |-> c[2][2]],
                  update_case(TrDb, tNow, c[2][1], c[2][2]))
        /\ UNCHANGED <<tNow, jiraVars, slackVars>>

TrUiCreateCase ==
    \E form \in CaseForms :
        /\ NextId(tCases) <= MaxCaseId
        /\ TrStep("ui_create_case", NoHeader, NoArg, create_case_submit(TrDb, tNow, form))
        /\ UNCHANGED <<tNow, jiraVars, slackVars>>

TrUiEditCase ==
    \E id \in EditIds, form \in CaseForms :
        /\ TrStep("ui_edit_case", NoHeader, [case_id |-> id],
                  edit_case_submit(TrDb, tNow, id, form))
        /\ UNCHANGED <<tNow, jiraVars, slackVars>>

\* the service is restarted: seed_initial_data() runs on the existing database
TrRestart ==
    /\ TrStep("startup", NoHeader, NoArg,
              TOut(Response(0, NoBody), seed_initial_data(TrDb, tNow)))
    /\ UNCHANGED <<tNow, jiraVars, slackVars>>

\* time passes
TrTick ==
    /\ tNow' \in TestRailTimes
    /\ tNow' > tNow
    /\ UNCHANGED <<tProjects, tSections, tCases, tResults, tRuns, tEntries,
                   jiraVars, slackVars, req, resp>>

TestRailNext ==
    \/ TrGetProjects
    \/ TrGetCase
    \/ TrGetCases
    \/ TrCreateCase
    \/ TrUpdateCase
    \/ TrDeleteCase
    \/ TrUiCreateCase
    \/ TrUiEditCase
    \/ TrRestart
    \/ TrTick

TrCreateSection ==
    \E c \in Calls(ProjectIds \X SectionBodies,
                   <<1, [name |-> "s1", description |-> NULL, parent_id |-> 0]>>, {NoHeader}) :
        /\ NextId(tSections) <= MaxSectionId
        /\ TrStep("create_section", c[1], [project_id |-> c[2][1], body |-> c[2][2]],
                  create_section(TrDb, tNow, c[2][1], c[2][2]))
        /\ UNCHANGED <<tNow, jiraVars, slackVars>>

TrCreateRun ==
    \E c \in Calls(ProjectIds \X RunBodies, <<1, [name |-> "r1", description |-> "d1"]>>,
                   {NoHeader}) :
        /\ NextId(tRuns) <= MaxRunId
        /\ TrStep("create_run", c[1], [project_id |-> c[2][1], body |-> c[2][2]],
                  create_run(TrDb, tNow, c[2][1], c[2][2]))
        /\ UNCHANGED <<tNow, jiraVars, slackVars>>

TrCreateResult ==
    \E c \in Calls(ResultCaseIds \X ResultBodies,
                   <<1, [status_id |-> 1, comment |-> "c1", elapsed |-> "1m"]>>, {NoHeader}) :
        /\ NextId(tResults) <= MaxResultId
        /\ TrStep("create_result", c[1], [case_id |-> c[2][1], body |-> c[2][2]],
                  create_result(TrDb, tNow, c[2][1], c[2][2]))
        /\ UNCHANGED <<tNow, jiraVars, slackVars>>

TrUiExecuteCase ==
    \E id \in ResultCaseIds, form \in ExecuteForms :
        /\ NextId(tResults) <= MaxResultId
        /\ TrStep("ui_execute_case", NoHeader, [case_id |-> id, form |-> form],
                  execute_case(TrDb, tNow, id, form))
        /\ UNCHANGED <<tNow, jiraVars, slackVars>>

\* the routes that create a child row under a parent, at one reading of the clock
TrGetStats ==
    \E c \in Calls(ProjectIds, 1, {NoHeader}) :
        /\ TrStep("get_stats", c[1], [project_id |-> c[2]],
                  TOut(get_project_stats(TrDb, c[2]), TrDb))
        /\ UNCHANGED <<tNow, jiraVars, slackVars>>

TestRailTreeNext ==
    \/ TrCreateCase
    \/ TrCreateSection
    \/ TrCreateRun
    \/ TrCreateResult
    \/ TrUiExecuteCase
    \/ TrGetCase
    \/ TrGetStats
    \/ TrRestart

\* The TestRail service alone: its store after TestRailStorage() is constructed, the
\* other services unused
TestRailInit ==
    /\ tNow = 0
    /\ tProjects = seed_initial_data(EmptyDb, 0).projects
    /\ tSections = seed_initial_data(EmptyDb, 0).sections
    /\ tCases = seed_initial_data(EmptyDb, 0).cases
    /\ tResults = seed_initial_data(EmptyDb, 0).results
    /\ tRuns = seed_initial_data(EmptyDb, 0).runs
    /\ tEntries = seed_initial_data(EmptyDb, 0).entries
    /\ jIssues = {} /\ jSeq = 0 /\ jNow = 0
    /\ sChannels = {} /\ sMessages = {} /\ sFiles = {} /\ sMsgSeq = 0 /\ sNow = 0
    /\ sAuthEnv = "true"
    /\ req = Request("none", "none", NoHeader, NoArg)
    /\ resp = [status |-> 0, id |-> 0]

SpecTestRail == TestRailInit /\ [][TestRailNext]_vars

SpecTestRailTree == TestRailInit /\ [][TestRailTreeNext]_vars

\* the add-cases form: the seeded run and a second one; a case not in the seeded run,
\* the same case twice, and a case of the seeded run beside a new one
EntryRunIds == {1, 2}
EntryCaseLists == { <<6>>, <<6, 6>>, <<1, 7>> }

TrUiAddCases ==
    \E run_id \in EntryRunIds, case_ids \in EntryCaseLists :
        /\ NextId(tEntries) <= MaxEntryId
        /\ TrStep("ui_add_cases", NoHeader, [run_id |-> run_id, case_ids |-> case_ids],
                  add_cases_to_run_submit(TrDb, run_id, case_ids))
        /\ UNCHANGED <<tNow, jiraVars, slackVars>>

TrUiCompleteRun ==
    \E run_id \in EntryRunIds :
        /\ TrStep("ui_complete_run", NoHeader, [run_id |-> run_id], complete_run(TrDb, run_id))
        /\ UNCHANGED <<tNow, jiraVars, slackVars>>

\* The runs of the TestRail service and their entries
TestRailRunsNext ==
    \/ TrCreateRun
    \/ TrUiAddCases
    \/ TrUiCompleteRun
    \/ TrRestart

SpecTestRailRuns == TestRailInit /\ [][TestRailRunsNext]_vars

----------------------------------------------------------------------------
(* The three services side by side.  Each is a process of its own with a database of its
   own, so a behaviour follows the one that was started: Slack holds a channel and
   TestRail a project from their first startup on, and neither is ever removed. *)

SlackRuns == sChannels # {}
TestRailRuns == tProjects # {}
JiraRuns == ~SlackRuns /\ ~TestRailRuns

\* the operations that add or remove rows, and the restarts
ServicesNext ==
    \/ JiraRuns /\ JiraCreateIssue
    \/ JiraRuns /\ JiraUiCreate
    \/ JiraRuns /\ JiraDeleteIssue
    \/ JiraRuns /\ JiraAdminReset
    \/ JiraRuns /\ JiraRestart
    \/ SlackRuns /\ SlackPostMessage
    \/ SlackRuns /\ SlackUploadFile
    \/ SlackRuns /\ SlackRestart
    \/ SlackRuns /\ SlackTick
    \/ TestRailRuns /\ TrCreateCase
    \/ TestRailRuns /\ TrUiCreateCase
    \/ TestRailRuns /\ TrCreateSection
    \/ TestRailRuns /\ TrCreateRun
    \/ TestRailRuns /\ TrCreateResult
    \/ TestRailRuns /\ TrUiExecuteCase
    \/ TestRailRuns /\ TrRestart

ServicesInit == JiraInit \/ SlackInit \/ TestRailInit

SpecServices == ServicesInit /\ [][ServicesNext]_vars

----------------------------------------------------------------------------
(* Properties of the Jira mock *)

\* headers that carry 'Bearer ' and a non-empty token
AuthorizedHeaders == { h \in AuthHeaders : IsBearerWithToken(h) }

JiraRestOps == {"create", "get", "search", "patch", "delete", "reset"}

\* every Jira REST operation answers 401 to header h and leaves the store as it is
JiraRejects(h) ==
    /\ \A p \in CreatePayloads :
         LET o == create_issue(jIssues, jSeq, jNow, h, p)
         IN o.resp.status = 401 /\ o.issues = jIssues /\ o.seq = jSeq
    /\ \A k \in IssueKeys :
         /\ get_issue(jIssues, h, k).status = 401
         /\ LET o == delete_issue(jIssues, jSeq, h, k)
            IN o.resp.status = 401 /\ o.issues = jIssues
         /\ \A b \in PatchBodies :
              LET o == update_issue(jIssues, jSeq, jNow, h, k, b)
              IN o.resp.status = 401 /\ o.issues = jIssues
    /\ \A s \in SearchStarts, m \in SearchSizes :
         search_issues(jIssues, h, s, m).status = 401
    /\ \A data \in SeedFiles :
         LET o == admin_reset(jIssues, jSeq, jNow, h, data)
         IN o.resp.status = 401 /\ o.issues = jIssues /\ o.seq = jSeq

\* C2: every Jira REST operation (create, get, search, PATCH, DELETE, admin reset) called
\* with no Authorization header, or with one that does not begin with 'Bearer ', is
\* answered 401 and leaves the issue store unchanged: the request just served, when its
\* header does not begin with 'Bearer ', was answered 401, and that header is answered 401
\* by every operation, none of which changes the store.
C2_JiraRejectsNonBearer ==
    (req.svc = "jira" /\ req.op \in JiraRestOps /\ ~BeginsWithBearer(req.auth)) =>
        (resp.status = 401 /\ JiraRejects(req.auth))

\* C4: in Jira and Slack a header 'Bearer ' followed by an empty or whitespace-only token
\* is rejected with 401, and every non-empty token is accepted.  Jira part: the request
\* just served, when its header begins with 'Bearer ', was answered 401 exactly when the
\* token is empty or blank.
C4_JiraOnlyNonEmptyToken ==
    (req.svc = "jira" /\ req.op \in JiraRestOps /\ BeginsWithBearer(req.auth)) =>
        ((resp.status = 401) <=> ~IsBearerWithToken(req.auth))

\* the description a POST payload asks for (the schema's default is the empty string)
PostedDescription(p) == IF p.description = NULL THEN "" ELSE p.description

\* C5: an issue created by an authorized POST /rest/api/3/issue is returned by a GET of
\* the returned key, with nothing in between, with status 200 and with summary,
\* description and issuetype as posted, and with priority, assignee, reporter, labels and
\* components as posted when they were supplied.
C5_JiraCreateThenGet ==
    (req.svc = "jira" /\ req.op = "create" /\ IsBearerWithToken(req.auth)) =>
        LET p == req.arg
            g == get_issue(jIssues, req.auth, resp.key)
        IN /\ resp.status = 201
           /\ g.status = 200
           /\ g.body.fields.summary = p.summary
           /\ g.body.fields.description = PostedDescription(p)
           /\ g.body.fields.issuetype = p.issuetype
           /\ p.priority # NULL => g.body.fields.priority = p.priority
           /\ p.assignee # NULL => g.body.fields.assignee = p.assignee
           /\ p.reporter # NULL => g.body.fields.reporter = p.reporter
           /\ p.labels # <<>> => g.body.fields.labels = p.labels
           /\ p.components # <<>> => g.body.fields.components = p.components

\* row new is row old with exactly the fields named in the payload set to the payload's
\* values and updated_on set to now; named tells which payload keys count as naming a
\* stored field
PatchedExactly(old, new, fields, now, named) ==
    /\ new.id = old.id /\ new.key = old.key /\ new.created_on = old.created_on
    /\ new.updated_on = now
    /\ new.summary = IF "summary" \in named THEN fields["summary"].s ELSE old.summary
    /\ new.description = IF "description" \in named THEN fields["description"].s
                         ELSE old.description
    /\ new.issue_type = IF "issuetype" \in named THEN fields["issuetype"].s ELSE old.issue_type
    /\ new.priority = IF "priority" \in named THEN fields["priority"].s ELSE old.priority
    /\ new.assignee = IF "assignee" \in named THEN fields["assignee"].s ELSE old.assignee
    /\ new.reporter = IF "reporter" \in named THEN fields["reporter"].s ELSE old.reporter
    /\ IF "labels" \in named THEN Loads(new.labels) = fields["labels"].l
       ELSE new.labels = old.labels
    /\ IF "components" \in named THEN Loads(new.components) = fields["components"].l
       ELSE new.components = old.components

\* every PATCH answered 200 changed the patched row as PatchedExactly says and no other
\* row; objOnly: "issuetype" names the stored issue type only when its value is an object
PatchFrame(objOnly) ==
    \A h \in AuthorizedHeaders, k \in IssueKeys, b \in PatchBodies :
        LET o == update_issue(jIssues, jSeq, jNow, h, k, b)
            named == { f \in DOMAIN b.fields :
                         f = "issuetype" /\ objOnly => b.fields[f].t = "obj" }
        IN o.resp.status = 200 =>
             /\ o.seq = jSeq
             /\ { r.id : r \in o.issues } = { r.id : r \in jIssues }
             /\ Cardinality(o.issues) = Cardinality(jIssues)
             /\ \A r \in jIssues : r.key # k => r \in o.issues
             /\ PatchedExactly(RowByKey(jIssues, k), RowByKey(o.issues, k), b.fields, jNow, named)

\* C6 as stated: a successful PATCH changes exactly the stored fields whose keys are
\* present in the payload's "fields" (plus the updated timestamp) and leaves every other
\* field, the id, key and created timestamp, and every other issue unchanged.
C6_JiraPatchExactlyPresent == PatchFrame(FALSE)

\* C6 amended: a successful PATCH changes exactly the stored fields whose keys are present
\* in the payload's "fields", where "issuetype" counts only when its value is an object
\* (any other value is ignored), plus the updated timestamp; every other field, the id,
\* key and created timestamp, and every other issue are unchanged.
C6_JiraPatchExactlyPresentObjType == PatchFrame(TRUE)

\* a PATCH with a string "issuetype" beside a summary has been answered 200, and the
\* patched issue carries the new summary and not the new type
C6_Witness ==
    /\ req.op = "patch" /\ resp.status = 200
    /\ "issuetype" \in DOMAIN req.arg.fields
    /\ req.arg.fields["issuetype"].t = "str"
    /\ \E r \in jIssues :
         /\ r.updated_on = jNow
         /\ r.summary = req.arg.fields["summary"].s
         /\ r.issue_type # req.arg.fields["issuetype"].s

\* after an authorized DELETE: 204 for an existing key, then 404 from GET and DELETE and
\* from PATCH with each body of bodies, other issues unchanged; 404 and nothing changed
\* for a key that does not exist
DeleteThenGone(bodies) ==
    \A h \in AuthorizedHeaders, k \in IssueKeys :
        LET o == delete_issue(jIssues, jSeq, h, k)
        IN IF RowsByKey(jIssues, k) # {}
           THEN /\ o.resp.status = 204
                /\ get_issue(o.issues, h, k).status = 404
                /\ delete_issue(o.issues, o.seq, h, k).resp.status = 404
                /\ \A b \in bodies :
                     update_issue(o.issues, o.seq, jNow, h, k, b).resp.status = 404
                /\ o.issues = { r \in jIssues : r.key # k }
           ELSE o.resp.status = 404 /\ o.issues = jIssues /\ o.seq = jSeq

\* PATCH bodies that name at least one updatable field
UpdatableBodies ==
    { b \in PatchBodies : b.json /\ b.hasFields /\ UpdateKeys(b.fields) # {} }

\* C7 as stated: an authorized DELETE of an existing key returns 204, after which GET,
\* PATCH and DELETE of that key all return 404 and all other issues are unchanged; DELETE
\* of a key that does not exist returns 404 and leaves the store unchanged.
C7_JiraDeleteThen404 == DeleteThenGone(PatchBodies)

\* C7 amended: as C7, with PATCH of the deleted key returning 404 when its payload names
\* at least one updatable field (a payload that is not JSON or names none is answered 400
\* before the key is looked up).
C7_JiraDeleteThen404ValidPatch == DeleteThenGone(UpdatableBodies)

\* a DELETE has been answered 204 and left another issue in the store
C7_Witness ==
    /\ req.op = "delete" /\ resp.status = 204
    /\ jIssues # {}
    /\ \E k \in IssueKeys : RowsByKey(jIssues, k) = {}

----------------------------------------------------------------------------
(* Properties of the Slack mock *)

SlackApiOps == {"post", "history", "upload"}

\* with auth required, chat.postMessage, conversations.history and files.upload answer
\* 401 to header h, whatever the channel, and store no message and no file
SlackRejects(h) ==
    /\ \A p \in PostBodies :
         LET o == post_message(sChannels, sMessages, sMsgSeq, sFiles, sNow, "true", h, p)
         IN o.resp.status = 401 /\ o.messages = sMessages /\ o.files = sFiles
    /\ \A a \in HistoryArgs :
         get_conversation_history(sChannels, sMessages, "true", h,
                                  a[1], a[2], a[3], a[4]).status = 401
    /\ \A u \in Uploads, gap \in ClockGaps :
         LET o == upload_file(sChannels, sMessages, sMsgSeq, sFiles, sNow, gap, "true", h, u)
         IN o.resp.status = 401 /\ o.messages = sMessages /\ o.files = sFiles

\* C3: while auth is required, chat.postMessage, conversations.history and files.upload
\* called without an Authorization header beginning with 'Bearer ' are answered 401 and
\* store no message and no file, whether or not the named channel exists: the request
\* just served, when its header does not begin with 'Bearer ', was answered 401, and that
\* header is answered 401 by the three operations, none of which stores anything.
C3_SlackRejectsNonBearer ==
    (/\ req.svc = "slack" /\ req.op \in SlackApiOps
     /\ LowerWord(sAuthEnv) = "true"
     /\ ~BeginsWithBearer(req.auth)) =>
        (resp.status = 401 /\ SlackRejects(req.auth))

\* the user a chat.postMessage body asks for
PostedUser(p) == IF p.username = Omitted THEN "SlackBot" ELSE p.username

\* history of channel a with no oldest/latest bound
History(messages, h, a, limit) ==
    get_conversation_history(sChannels, messages, sAuthEnv, h, a, limit, NoTs, NoTs)

\* C8: after a successful chat.postMessage to a channel addressed by name or by ID, the
\* response carries the channel's ID, and conversations.history of that channel (by name
\* or ID, limit at least the number of its messages, no oldest/latest bound) is answered
\* 200 and contains a message with the text, the user (default 'SlackBot') and the ts of
\* the response; the history of every other channel is unchanged.
C8_SlackPostThenHistory ==
    \A h \in AuthorizedHeaders, p \in PostBodies :
        LET o == post_message(sChannels, sMessages, sMsgSeq, sFiles, sNow, sAuthEnv, h, p)
        IN o.resp.status = 200 =>
             /\ \E c \in sChannels : c.name = p.channel \/ c.id = p.channel
             /\ LET ch == CHOOSE c \in sChannels : c.name = p.channel \/ c.id = p.channel
                    n == Cardinality({ m \in o.messages : m.channel_id = ch.id })
                IN /\ o.resp.body.channel = ch.id
                   /\ \A a \in {ch.id, ch.name}, limit \in {n, n + 1, 50} :
                        LET hist == History(o.messages, h, a, limit)
                        IN /\ hist.status = 200
                           /\ \E i \in 1..Len(hist.body.messages) :
                                /\ hist.body.messages[i].text = p.text
                                /\ hist.body.messages[i].user = PostedUser(p)
                                /\ hist.body.messages[i].ts = o.resp.body.ts
                   /\ \A c \in sChannels \ {ch}, limit \in 1..(Cardinality(o.messages) + 1) :
                        History(o.messages, h, c.id, limit) = History(sMessages, h, c.id, limit)

\* a chat.postMessage without username, addressed by channel ID, has been answered 200,
\* and the channel holds the message under the user 'SlackBot'
C8_Witness ==
    /\ req.op = "post" /\ resp.status = 200
    /\ req.arg.channel = "C0987654321" /\ req.arg.username = Omitted
    /\ \E m \in sMessages :
         m.channel_id = "C0987654321" /\ m.user = "SlackBot" /\ m.text = req.arg.text

----------------------------------------------------------------------------
(* Properties of the TestRail mock *)

TestRailApiOps == {"get_projects", "get_case", "create_case", "update_case"}

\* no create and no update through the API changes the store
TestRailStoreKept ==
    /\ \A s \in SectionIds, b \in CaseBodies : create_case(TrDb, tNow, s, b).db = TrDb
    /\ \A id \in PutIds, b \in PutBodies : update_case(TrDb, tNow, id, b).db = TrDb

\* C1: every request to an /api/ endpoint that carries no Authorization header beginning
\* with 'Bearer ' is answered 401 and changes nothing in the store, and the same request
\* with 'Bearer <token>' is answered 200: the API request just served, when check_auth
\* refuses its header, was answered 401 and the API's writes leave the store as it is;
\* GET /api/v2/projects with an accepted header was answered 200.
C1_TestRailRejectsNonBearer ==
    /\ (req.svc = "testrail" /\ req.op \in TestRailApiOps /\ ~check_auth(TRUE, req.auth)) =>
           (resp.status = 401 /\ TestRailStoreKept)
    /\ (req.svc = "testrail" /\ req.op = "get_projects" /\ check_auth(TRUE, req.auth)) =>
           resp.status = 200

\* the value a POST body gives field f, d when it leaves the field out
Posted(b, f, d) == IF f \in DOMAIN b THEN b[f] ELSE d

\* C9: a case created by POST /api/v2/cases/{section_id} in an existing section is
\* retrievable by GET /api/v2/case/{id}, id being the one the POST returned and new, with
\* the title, section_id, template_id, type_id, priority_id, steps, expected_result and
\* preconditions posted (template 1, type 1, priority 2, the rest null when omitted).
C9_TrCreateThenGet ==
    \A s \in tSections, b \in CaseBodies :
        LET o == create_case(TrDb, tNow, s.id, b)
            g == get_case(o.db, o.resp.body.id)
        IN /\ o.resp.status = 200
           /\ \A c \in tCases : c.id # o.resp.body.id
           /\ g.status = 200
           /\ g.body.id = o.resp.body.id
           /\ g.body.section_id = s.id
           /\ g.body.title = b.title
           /\ g.body.template_id = Posted(b, "template_id", 1)
           /\ g.body.type_id = Posted(b, "type_id", 1)
           /\ g.body.priority_id = Posted(b, "priority_id", 2)
           /\ g.body.steps = Posted(b, "steps", NoSteps)
           /\ g.body.expected_result = Posted(b, "expected_result", NULL)
           /\ g.body.preconditions = Posted(b, "preconditions", NULL)

\* a POST that gave only the title has been answered 200, and the case stored under the
\* returned id carries that title, the section of the path and priority 2
C9_Witness ==
    /\ req.op = "create_case" /\ resp.status = 200
    /\ DOMAIN req.arg.body = {"title"}
    /\ \E c \in tCases :
         /\ c.id = resp.id
         /\ c.title = req.arg.body.title
         /\ c.section_id = req.arg.section_id
         /\ c.priority_id = 2

\* ids of the stored cases and two ids no case has
StoredAndMissingIds == { c.id : c \in tCases } \cup {0, NextId(tCases)}

\* C10: PUT /api/v2/case/{case_id} on an existing case is answered 200 and sets exactly the
\* body fields present in the request, leaving every body field that is absent, the
\* case's id, section_id and creation time, every other case and every other table
\* unchanged; on an id no case has it is answered 404 and changes nothing.
C10_TrPutExactlyPresent ==
    \A id \in StoredAndMissingIds, b \in PutBodies :
        LET o == update_case(TrDb, tNow, id, b)
        IN IF \E c \in tCases : c.id = id
           THEN LET old == CHOOSE c \in tCases : c.id = id
                IN /\ o.resp.status = 200
                   /\ \E new \in o.db.cases :
                        /\ new.id = id
                        /\ o.resp.body = new
                        /\ \A f \in CaseFields :
                             new[f] = IF f \in DOMAIN b THEN b[f] ELSE old[f]
                        /\ new.section_id = old.section_id
                        /\ new.created_on = old.created_on
                        /\ o.db.cases \ {new} = tCases \ {old}
                   /\ [o.db EXCEPT !.cases = tCases] = TrDb
           ELSE o.resp.status = 404 /\ o.db = TrDb

\* a PUT without steps has been answered 200 at a later time than the case was created:
\* the case carries the title of the body and still has its steps
C10_Witness ==
    /\ req.op = "update_case" /\ resp.status = 200
    /\ "steps" \notin DOMAIN req.arg.body
    /\ \E c \in tCases :
         /\ c.id = req.arg.case_id
         /\ c.title = req.arg.body.title
         /\ c.steps # NoSteps
         /\ c.updated_on > c.created_on

\* C11: an authorized DELETE /api/v2/case/{case_id} of an existing case returns 200 and
\* removes the case, so a later GET of that id returns 404; DELETE of an id no case has
\* returns 404: the authorized DELETE just served was answered 200 or 404, and GET of its
\* id is now answered 404.
C11_TrDeleteThenGone ==
    (req.svc = "testrail" /\ req.op = "delete_case" /\ IsBearerWithToken(req.auth)) =>
        /\ resp.status \in {200, 404}
        /\ get_case(TrDb, req.arg.case_id).status = 404

\* the channel argument matches no channel name and no channel ID
UnknownChannel(x) == \A c \in sChannels : c.name # x /\ c.id # x

\* C12: an authorized chat.postMessage or conversations.history naming a channel that
\* matches no channel name and no channel ID is answered 404, and the failed post stores
\* no message: the authorized request just served, when its channel is unknown, was
\* answered 404, and no post to an unknown channel changes the table messages.
C12_SlackUnknownChannel404 ==
    /\ (req.svc = "slack" /\ req.op = "post" /\ IsBearerWithToken(req.auth)
         /\ UnknownChannel(req.arg.channel)) => resp.status = 404
    /\ (req.svc = "slack" /\ req.op = "history" /\ IsBearerWithToken(req.auth)
         /\ UnknownChannel(req.arg[1])) => resp.status = 404
    /\ \A h \in AuthorizedHeaders, p \in PostBodies :
         UnknownChannel(p.channel) =>
             post_message(sChannels, sMessages, sMsgSeq, sFiles, sNow, sAuthEnv, h, p).messages
                 = sMessages

\* ids no row of a table has
MissingIds(rows) == {0, NextId(rows), NextId(rows) + 1} \ { r.id : r \in rows }

\* the answer 404 with the store as it was
NotFoundNothingStored(o) == o.resp.status = 404 /\ o.db = TrDb

\* C13: creating a child under a parent that does not exist is answered 404 and stores
\* nothing: a case in an unknown section, a section or a run in an unknown project, a
\* result (whatever its status) for an unknown case.
C13_TrUnknownParent404 ==
    /\ \A s \in MissingIds(tSections), b \in CaseBodies :
         NotFoundNothingStored(create_case(TrDb, tNow, s, b))
    /\ \A p \in MissingIds(tProjects), b \in SectionBodies :
         NotFoundNothingStored(create_section(TrDb, tNow, p, b))
    /\ \A p \in MissingIds(tProjects), b \in RunBodies :
         NotFoundNothingStored(create_run(TrDb, tNow, p, b))
    /\ \A c \in MissingIds(tCases), b \in ResultBodies :
         NotFoundNothingStored(create_result(TrDb, tNow, c, b))

\* a run was posted to a project that does not exist and answered 404; the store holds
\* runs, and none of the unknown project
C13_Witness ==
    /\ req.op = "create_run" /\ resp.status = 404
    /\ \A p \in tProjects : p.id # req.arg.project_id
    /\ \A r \in tRuns : r.project_id # req.arg.project_id
    /\ tRuns # {}

\* C14: POST /api/v2/results/{case_id} for an existing case with a status_id outside
\* {1,2,3,4,5} is answered 400 and stores no result; with a status_id in that set it is
\* answered 200 and stores exactly one new result, which carries that status, comment,
\* elapsed and case_id.
C14_TrResultStatusChecked ==
    \A c \in tCases, b \in ResultBodies :
        LET o == create_result(TrDb, tNow, c.id, b)
        IN IF b.status_id \in 1..5
           THEN /\ o.resp.status = 200
                /\ [o.db EXCEPT !.results = tResults] = TrDb
                /\ \E r \in o.db.results :
                     /\ r \notin tResults
                     /\ \A old \in tResults : old.id # r.id
                     /\ o.db.results = tResults \cup {r}
                     /\ o.resp.body = r
                     /\ r.case_id = c.id
                     /\ r.status_id = b.status_id
                     /\ r.comment = b.comment
                     /\ r.elapsed = b.elapsed
           ELSE o.resp.status = 400 /\ o.db = TrDb

\* a result with status 1, a comment and an elapsed time was posted for case 1 and
\* answered 200; the result stored under the returned id carries them
C14_Witness ==
    /\ req.op = "create_result" /\ resp.status = 200
    /\ req.arg.body.comment # NULL
    /\ \E r \in tResults :
         /\ r.id = resp.id
         /\ r.case_id = req.arg.case_id
         /\ r.status_id = req.arg.body.status_id
         /\ r.comment = req.arg.body.comment
         /\ r.elapsed = req.arg.body.elapsed

\* ts lies within [oldest, latest], each bound applying when it is given
WithinBounds(ts, oldest, latest) ==
    /\ oldest # NoTs => TsLeq(oldest, ts)
    /\ latest # NoTs => TsLeq(ts, latest)

Min(a, b) == IF a <= b THEN a ELSE b

\* C15: for every integer limit the endpoint accepts, conversations.history returns at
\* most limit messages, and they are exactly the min(limit, n) newest of the n messages of
\* the channel whose ts lies within [oldest, latest], in ascending ts order: so it is for
\* the authorized history request just served on an existing channel.
C15_SlackHistoryNewestWithinLimit ==
    (/\ req.svc = "slack" /\ req.op = "history"
     /\ IsBearerWithToken(req.auth) /\ ~UnknownChannel(req.arg[1])) =>
        LET ch == CHOOSE c \in sChannels : c.name = req.arg[1] \/ c.id = req.arg[1]
            limit == req.arg[2]
            inRange == { m \in sMessages : /\ m.channel_id = ch.id
                                            /\ WithinBounds(m.ts, req.arg[3], req.arg[4]) }
            r == get_conversation_history(sChannels, sMessages, sAuthEnv, req.auth,
                                          req.arg[1], limit, req.arg[3], req.arg[4])
            out == r.body.messages
        IN /\ r.status = 200
           /\ Len(out) <= limit
           /\ Len(out) = Min(limit, Cardinality(inRange))
           /\ \A i \in 1..Len(out) : \E m \in inRange : out[i].ts = m.ts /\ out[i].user = m.user
           /\ \A i, j \in 1..Len(out) : i < j => TsLess(out[i].ts, out[j].ts)
           /\ \A m \in inRange :
                \/ \E i \in 1..Len(out) : out[i].ts = m.ts
                \/ \A i \in 1..Len(out) : TsLess(m.ts, out[i].ts)

\* C16: for every limit and offset the endpoint accepts (limit <= 250, offset >= 0),
\* GET /api/v2/cases/{project_id} returns at most limit cases, every one in a section of
\* that project, and when section_id is given every one with exactly that section_id: so
\* it is for the request just served.
C16_TrCasesWithinLimitAndSection ==
    (req.svc = "testrail" /\ req.op = "get_cases") =>
        LET query == req.arg.query
            out == get_cases(TrDb, req.arg.project_id, query).body.list
        IN /\ query.limit <= 250 /\ query.offset >= 0
           /\ Len(out) <= query.limit
           /\ \A i \in 1..Len(out) :
                /\ \E s \in tSections : s.id = out[i].section_id
                                           /\ s.project_id = req.arg.project_id
                /\ "section_id" \in DOMAIN query => out[i].section_id = query.section_id

\* the page an authorized search answers with, and the position (from 0) of a stored
\* issue among all stored issues ordered by id descending
SearchPage(s, m) == search_issues(jIssues, GoodHeader, s, m).body.issues
PositionByIdDesc(row) == Cardinality({ o \in jIssues : o.id > row.id })

\* C17: an authorized search with startAt = s and maxResults = m returns exactly the
\* issues at positions s .. s+m-1 of all stored issues ordered by id descending, never
\* more than m; and the pages at s = 0, m, 2m, ... of one store hold every stored issue
\* exactly once.
C17_JiraSearchPages ==
    \A m \in SearchSizes :
        /\ \A s \in 0..(Cardinality(jIssues) + 1) :
             LET r == search_issues(jIssues, GoodHeader, s, m)
                 page == r.body.issues
             IN /\ r.status = 200
                /\ Len(page) <= m
                /\ \A i \in 1..Len(page) :
                     \E row \in jIssues :
                        /\ row.id = page[i].id
                        /\ PositionByIdDesc(row) = s + i - 1
                        /\ row.key = page[i].key /\ row.summary = page[i].summary
                /\ \A row \in jIssues :
                     (s <= PositionByIdDesc(row) /\ PositionByIdDesc(row) <= s + m - 1)
                        => \E i \in 1..Len(page) : page[i].id = row.id
        /\ LET pages == [k \in 0..Cardinality(jIssues) |-> SearchPage(k * m, m)]
           IN \A row \in jIssues :
                Cardinality({ p \in (0..Cardinality(jIssues)) \X (1..m) :
                                /\ p[2] <= Len(pages[p[1]])
                                /\ pages[p[1]][p[2]].id = row.id }) = 1

\* an authorized search has been answered while the store holds more than one issue
C17_Witness ==
    /\ req.svc = "jira" /\ req.op = "search" /\ resp.status = 200
    /\ Cardinality(jIssues) >= 2

\* C18: the 'total' field of an authorized search response is the number of issues in the
\* store, whatever startAt and maxResults are.
C18_JiraSearchTotalIsStoreSize ==
    (req.svc = "jira" /\ req.op = "search" /\ resp.status = 200) =>
        \A s \in SearchStarts, m \in SearchSizes :
            search_issues(jIssues, GoodHeader, s, m).body.total = Cardinality(jIssues)

\* C19: in every reachable state, every stored Slack message's channel_id names an
\* existing channel and every stored TestRail result's case_id names an existing case.
C19_ReferentialIntegrity ==
    /\ \A m \in sMessages : \E c \in sChannels : c.id = m.channel_id
    /\ \A r \in tResults : \E c \in tCases : c.id = r.case_id

\* a message beyond the seeded ones has been stored by a post or an upload, or a result
\* beyond the seeded ones by the API or the execute form
C19_Witness ==
    \/ /\ req.svc = "slack" /\ req.op \in {"post", "upload"}
       /\ Cardinality(sMessages) > Cardinality(SeedMessages(StartSecond))
    \/ /\ req.svc = "testrail" /\ req.op \in {"create_result", "ui_execute_case"}
       /\ Cardinality(tResults) > Cardinality(seed_initial_data(EmptyDb, 0).results)

\* C20: seeding is idempotent.  A startup inserts the seed data when the store is empty
\* (Jira: no issue, Slack: no channel, TestRail: no project) and changes nothing when it
\* is not, so a second startup changes nothing whatever the first one found: no seed row
\* is added twice and no row is lost.
C20_SeedingIdempotent ==
    /\ \A data \in SeedFiles :
         LET s == startup(jIssues, jSeq, jNow, data)
         IN /\ jIssues # {} => s.issues = jIssues /\ s.seq = jSeq
            /\ jIssues = {} =>
                 /\ Cardinality(s.issues) = Len(data)
                 /\ \A i \in 1..Len(data) : \E row \in s.issues : row.key = data[i].key
            /\ startup(s.issues, s.seq, jNow, data) = s
    /\ LET s == init_db(sChannels, sMessages, sMsgSeq)
       IN /\ sChannels # {} => s.channels = sChannels /\ s.messages = sMessages
          /\ sChannels = {} => s.channels = SeedChannels /\ s.messages = SeedMessages(StartSecond)
          /\ init_db(s.channels, s.messages, s.seq) = s
    /\ LET s == seed_initial_data(TrDb, tNow)
       IN /\ tProjects # {} => s = TrDb
          /\ tProjects = {} => /\ Cardinality(s.projects) = 1
                               /\ s.sections # {} /\ s.cases # {}
          /\ seed_initial_data(s, tNow) = s

\* a service has been started again on a store that holds a row created after seeding
C20_Witness ==
    /\ req.op = "startup"
    /\ \/ req.svc = "jira" /\ \A data \in SeedFiles : Cardinality(jIssues) > Len(data)
       \/ /\ req.svc = "slack"
          /\ Cardinality(sMessages) > Cardinality(SeedMessages(StartSecond))
       \/ /\ req.svc = "testrail"
          /\ Cardinality(tCases) > Cardinality(seed_initial_data(EmptyDb, 0).cases)

\* row holds the seed item as startup() inserts it: the item's key and fields, and no
\* value in any column a PATCH can set
InSeedState(row, item) ==
    /\ row.key = item.key /\ row.summary = item.summary
    /\ row.description = item.description /\ row.issue_type = item.issuetype
    /\ row.priority = NULL /\ row.assignee = NULL /\ row.reporter = NULL
    /\ row.labels = NoText /\ row.components = NoText /\ row.updated_on = NoTime

LatestResults(c) ==
    { r \in tResults : /\ r.case_id = c.id
                        /\ \A o \in tResults : o.case_id = c.id => o.created_on <= r.created_on }

\* C22: GET /api/v2/stats/{project_id} counts each case at most once in section and
\* overall status counts, under the status of the case's latest result, so the overall
\* counts sum to at most total_cases, and total_cases is the number of cases in the
\* project's sections: so it is for the statistics request just answered 200.
C22_TrStatsCountCasesOnce ==
    (req.svc = "testrail" /\ req.op = "get_stats" /\ resp.status = 200) =>
        LET stats == get_project_stats(TrDb, req.arg.project_id).body
            CasesIn(sections) == { c \in tCases : \E s \in sections : s.id = c.section_id }
            project == { s \in tSections : s.project_id = req.arg.project_id }
            Under(sections, st) ==
                { c \in CasesIn(sections) : \E r \in LatestResults(c) : r.status_id = st }
            overall == stats.overall_status_counts
        IN /\ stats.total_cases = Cardinality(CasesIn(project))
           /\ \A st \in STATUS_NAMES : overall[st] <= Cardinality(Under(project, st))
           /\ \A i \in 1..Len(stats.sections) : \A st \in STATUS_NAMES :
                stats.sections[i].status_counts[st]
                    <= Cardinality(Under({ s \in project : s.id = stats.sections[i].section_id },
                                         st))
           /\ SumOf([i \in 1..5 |-> overall[i]]) <= stats.total_cases

\* the names of a comma-separated channels field
Named(u) == { u.channels[i] : i \in 1..Len(u.channels) }

\* C23: an authorized files.upload always stores exactly one file record (size = number
\* of uploaded bytes, title defaulting to the file name); with an initial_comment it
\* posts exactly one message into each named channel that exists and none into any other
\* channel; without one it posts no message.
C23_SlackUploadOneFileOneMessageEach ==
    \A u \in Uploads, gap \in ClockGaps :
        LET out == upload_file(sChannels, sMessages, sMsgSeq, sFiles, sNow, gap, sAuthEnv,
                               GoodHeader, u)
            posted == out.messages \ sMessages
        IN /\ sFiles \subseteq out.files /\ sMessages \subseteq out.messages
           /\ \E f \in out.files \ sFiles :
                /\ out.files = sFiles \cup {f}
                /\ f.size = Len(u.content)
                /\ f.title = IF u.title = NULL THEN u.filename ELSE u.title
           /\ \A c \in sChannels :
                Cardinality({ m \in posted : m.channel_id = c.id })
                    = IF u.initial_comment # NULL /\ c.name \in Named(u) THEN 1 ELSE 0
           /\ \A m \in posted : \E c \in sChannels : c.id = m.channel_id

\* the payload check of PATCH fails: invalid JSON, 'fields' missing or empty, or no
\* updatable key in it ("issuetype" is one only with an object value)
PayloadFails(b) ==
    \/ ~b.json
    \/ ~b.hasFields
    \/ DOMAIN b.fields = {}
    \/ \A k \in DOMAIN b.fields :
         /\ k \notin {"summary", "description", "priority", "assignee", "reporter", "labels",
                       "components"}
         /\ k = "issuetype" => b.fields[k].t # "obj"

C25_SlackHasMoreIffMoreExist ==
    (req.svc = "slack" /\ req.op = "history" /\ resp.status = 200) =>
        \A ch \in sChannels, limit \in 1..(Cardinality(sMessages) + 1),
           oldest \in {NoTs, <<StartSecond, 0>>} :
            LET r == get_conversation_history(sChannels, sMessages, sAuthEnv, GoodHeader,
                                              ch.name, limit, oldest, NoTs)
                matching == { m \in sMessages : /\ m.channel_id = ch.id
                                                 /\ WithinBounds(m.ts, oldest, NoTs) }
            IN /\ r.body.has_more <=> Cardinality(matching) > Len(r.body.messages)
               /\ ~r.body.has_more => r.body.next_cursor = NoTs

\* The requests that store messages and files, the clock and the restart: no reads
SlackWritesNext ==
    \/ SlackPostMessage
    \/ SlackUploadFile
    \/ SlackRestart
    \/ SlackTick

SpecSlackWrites == SlackInit /\ [][SlackWritesNext]_vars

\* a message stamped with the present reading of the clock is stored
ClockValueTaken == \E m \in sMessages : m.ts = generate_timestamp(sNow)

\* C26: every stored message has a ts distinct from every other stored message.  A
\* chat.postMessage that reads a clock value an earlier creation has read is answered with
\* an error and stores nothing; a files.upload whose two channels read the same clock value
\* is answered with an error after storing the first message only; every message stored
\* before stays as it is.
C26_SlackTsUnique ==
    /\ \A m1, m2 \in sMessages : m1.ts = m2.ts => m1.id = m2.id
    /\ ClockValueTaken =>
         \A p \in PostBodies :
            LET o == post_message(sChannels, sMessages, sMsgSeq, sFiles, sNow, sAuthEnv,
                                  GoodHeader, p)
            IN o.resp.status >= 400 /\ o.messages = sMessages
    /\ ~ClockValueTaken =>
         \A u \in Uploads :
            (u.initial_comment # NULL /\ Cardinality(Named(u) \cap { c.name : c \in sChannels }) = 2)
            => LET o == upload_file(sChannels, sMessages, sMsgSeq, sFiles, sNow, 0, sAuthEnv,
                                    GoodHeader, u)
               IN /\ o.resp.status >= 400
                  /\ sMessages \subseteq o.messages
                  /\ Cardinality(o.messages) = Cardinality(sMessages) + 1
                  /\ \A m \in o.messages \ sMessages :
                       /\ m.ts = generate_timestamp(sNow)
                       /\ \E c \in sChannels : c.id = m.channel_id /\ c.name = u.channels[1]

\* a post to an existing channel, with a user name, has been answered with an error
\* because a stored message carries the clock value it read
C26_Witness ==
    /\ req.svc = "slack" /\ req.op = "post"
    /\ resp.status = 500 /\ resp.raised = 500
    /\ req.arg.username # NULL
    /\ ClockValueTaken

\* C27: in every reachable state every stored test result has status_id in {1,2,3,4,5},
\* whether it came through POST /api/v2/results/{case_id} or through the execute form of
\* the UI; hence GET /api/v2/stats/{project_id} is always answered 200.
C27_TrStoredStatusValid ==
    /\ \A r \in tResults : r.status_id \in STATUS_NAMES
    /\ \A p \in ProjectIds : get_project_stats(TrDb, p).status = 200

\* C28: in every reachable state every stored test case's section_id names an existing
\* section, whatever sequence of API calls and UI form submissions produced it.
C28_TrCaseSectionExists ==
    \A c \in tCases : \E s \in tSections : s.id = c.section_id

\* C29: a test run never holds two entries for the same case: after any sequence of
\* add-cases submissions, also one that names a case twice or names a case already in the
\* run, there is at most one run entry per (run_id, case_id).
C29_TrRunEntriesUnique ==
    \A e1, e2 \in tEntries :
        (e1.run_id = e2.run_id /\ e1.case_id = e2.case_id) => e1.id = e2.id

\* C30: under creations (POST /rest/api/3/issue, POST /ui/create) and deletions without
\* a reset, each created issue gets key 'QA-<id>' with an id greater than every id
\* assigned before (jSeq is the largest id assigned so far): the key it gets is held by no
\* stored issue, no two stored issues share a key, and the key of a deleted issue is not
\* given to a new one.
C30_JiraKeysNeverReused ==
    /\ \A r \in jIssues : r.id <= jSeq /\ r.key = KeyOf(r.id)
    /\ \A r1, r2 \in jIssues : r1.key = r2.key => r1.id = r2.id
    /\ \A p \in CreatePayloads :
         LET o == create_issue(jIssues, jSeq, jNow, GoodHeader, p)
         IN /\ o.resp.status = 201
            /\ o.resp.body.id > jSeq
            /\ \A r \in jIssues : o.resp.body.id > r.id
            /\ o.resp.body.key = KeyOf(o.resp.body.id)
            /\ RowsByKey(jIssues, o.resp.body.key) = {}
            /\ Cardinality(RowsByKey(o.issues, o.resp.body.key)) = 1
            /\ jIssues \subseteq o.issues
    /\ LET o == ui_create(jIssues, jSeq, jNow, "s1", "d1")
       IN /\ o.resp.status = 303
          /\ o.resp.body.key = KeyOf(jSeq + 1)
          /\ RowsByKey(jIssues, o.resp.body.key) = {}
          /\ Cardinality(RowsByKey(o.issues, o.resp.body.key)) = 1
          /\ \A r \in o.issues : r.key = o.resp.body.key => r.id > jSeq

\* an issue has been created and answered 201 after the holder of a smaller id was deleted
C30_Witness ==
    /\ req.svc = "jira" /\ req.op = "create" /\ resp.status = 201
    /\ RowsByKey(jIssues, resp.key) # {}
    /\ \E i \in 1..jSeq : KeyOf(i) # resp.key /\ RowsByKey(jIssues, KeyOf(i)) = {}

====
